---- MODULE Spec2Model ----
(***************************************************************************)
(* The chat room Durable Object of src/workers/facet.ts (class Facet):     *)
(* one room, its accepted WebSockets and their tags, the in-memory message *)
(* history and the per-userId token bucket.  Every handler of the class is *)
(* synchronous (no await inside), so one handler invocation is one step.   *)
(*                                                                         *)
(* Strings are sequences of character tokens.  Tokens of a message text:   *)
(*   "h"  a visible character          "_"  a whitespace character         *)
(*   "T"  a markup tag that the chat configuration does not allow          *)
(*   "S"  the substring "<script"                                         *)
(* Tokens of a userId / username: "u1", "u2", "A", "B", "x" are runs of    *)
(* word characters and ":" is the colon.                                   *)
(* The timestamp field of ChatMessage is not modelled.                     *)
(***************************************************************************)
EXTENDS Integers, Sequences, FiniteSets, TLC

\* ----- bounds of the model ------------------------------------------------
MaxConns == 3
MaxFrames == 3
MaxSteps == 5
MaxNow == 1000
MaxBurst == 33
MaxNowRate == 61000
MaxDrift == 2000
CleanPrefix == 29
RateConns == 2
HistConns == 2
HistFrames == 2
HistSteps == 4
FrameConns == 2
FrameChecks == 2
FailConns == 2
FailFrames == 2
FailSteps == 4
RoomConns == 2
RoomEvents == 4
PingConns == 1
PingBurst == 34
MaxNowPing == 63000
PingDrift == 3000
KeyConns == 2
KeyChecks == 3
DupConns == 2
DupEvents == 3
TagConns == 2
TagEvents == 4
FacetConns == 2
FacetBurst == 32
FacetQuiet == 1
ErrConns == 3
ErrFrames == 2
ErrSteps == 5
StayConns == 2
StayBurst == 32
MaxNowStay == 90000
JunkConns == 2
JunkBurst == 31
MaxNowJunk == 1000
PaceConns == 1
ClientSockets == 3
ClientEvents == 3
ValidatorMax == 2
ValidatorCalls == 5
MaxNowValidator == 90000
PaceBurst == 32
MaxNowPace == 64000

\* ----- constants of the program -------------------------------------------
maxHistorySize == 100
maxRequests == 30
windowMs == 60000
blockDurationMs == 60000
HistorySlice == 20
MaxMessageChars == 5000

VARIABLES sockets, tags, messageHistory, rateLimitMap, now, nextId, nextConn,
          sent, received, checks, last, failing, response, sessions, open,
          facet, facets, requests, calls, chat, wsockets, clientLast

vars == <<sockets, tags, messageHistory, rateLimitMap, now, nextId, nextConn,
          sent, received, checks, last, failing, response, sessions, open,
          facet, facets, requests, calls, chat, wsockets, clientLast>>

\* the state of the ChatRoom class (src/unnamed/part_006), idle in a Facet
roomVars == <<sessions, open>>

\* the Durable Object instance whose handler runs, and the fields of the
\* instances that are idle meanwhile
instances == <<facet, facets>>

\* the message validator's RateLimiter (src/unnamed/part_004): its requests
\* map, and the isAllowed calls made so far with their results
validatorVars == <<requests, calls>>

\* the chat client (src/unnamed/part_003): its React state and wsRef, the
\* sockets it has created, and the event it handled last
clientVars == <<chat, wsockets, clientLast>>

\* what no handler of a room touches
elsewhere == <<validatorVars, clientVars>>

Conns == 1..(MaxConns + 1)

\* ----- inputs -------------------------------------------------------------
\* the query parameters of the upgrade requests
Identities ==
  {[userId |-> <<"u1", ":", "x">>, username |-> <<"A">>],
   [userId |-> <<"u2">>, username |-> <<"B", ":">>]}
Anonymous == <<"Anonymous">>
anonymous == <<"anonymous">>
Hello == <<"h">>
RawMessages == {<<"T", "_", "h">>, <<"T">>, <<"S", "h">>}
NoMessage == <<>>
\* texts that sanitize to nothing visible: a blank (sanitized to the empty
\* text), two tags around a blank (sanitized to the blank), a lone "<script"
BlankMessages == {<<"_">>, <<"T", "_", "T">>, <<"S">>}
\* the inbound frames: {"type":"message","message":...}, the same without a
\* message field, {"type":"ping"}, {"type":"other"}, the JSON texts null and
\* 5 (a non-object), and a text that is not JSON
Frames ==
  [kind : {"message"}, message : RawMessages \cup BlankMessages \cup {NoMessage}]
    \cup [kind : {"ping", "other", "null", "nonobject", "invalid"},
          message : {NoMessage}]
ChatFrames == [kind : {"message"}, message : RawMessages]
                \cup [kind : {"ping"}, message : {NoMessage}]
RateFrames == [kind : {"message"}, message : {Hello, <<"S", "h">>}]
TickMs == {1000, 60000}
\* three quarters of a refill increment, and the block duration
PingTicks == {1500, 60000}
\* url.pathname.split('/') of the requests to /api/chat/a, /api/chat/ and
\* /api/chat/a/x
general == "general"
ChatPaths == {<<"", "api", "chat", "a">>, <<"", "api", "chat", "">>,
              <<"", "api", "chat", "a", "x">>}
\* url.pathname.split('/')[3] || 'general'
FacetName(segments) ==
  IF Len(segments) >= 4 /\ segments[4] # "" THEN segments[4] ELSE general
FacetNames == {FacetName(segments) : segments \in ChatPaths}

\* ----- helpers on sequences -----------------------------------------------
Min(a, b) == IF a < b THEN a ELSE b

\* Array.prototype.slice(-n) for n > 0
SliceLast(s, n) == IF Len(s) <= n THEN s ELSE SubSeq(s, Len(s) - n + 1, Len(s))

\* String.prototype.slice(0, n)
SliceFirst(s, n) == SubSeq(s, 1, Min(Len(s), n))

RECURSIVE Remove(_, _)
Remove(s, drop) ==
  IF s = <<>> THEN <<>>
  ELSE IF Head(s) \in drop THEN Remove(Tail(s), drop)
       ELSE <<Head(s)>> \o Remove(Tail(s), drop)

RECURSIVE TrimStart(_)
TrimStart(s) ==
  IF s # <<>> /\ Head(s) = "_" THEN TrimStart(Tail(s)) ELSE s

RECURSIVE TrimEnd(_)
TrimEnd(s) ==
  IF s # <<>> /\ s[Len(s)] = "_" THEN TrimEnd(SubSeq(s, 1, Len(s) - 1)) ELSE s

\* String.prototype.trim()
Trim(s) == TrimEnd(TrimStart(s))

\* ----- src/lib/sanitizer.ts -----------------------------------------------
\* purify.sanitize(text, CHAT_SANITIZE_CONFIG): tags outside ALLOWED_TAGS are
\* removed and their content kept (KEEP_CONTENT).
purifySanitize(text) == Remove(text, {"T", "S"})

sanitizeChatMessage(message) ==
  IF message = <<>> THEN <<>>
  ELSE purifySanitize(SliceFirst(Trim(message), MaxMessageChars))

containsSuspiciousContent(message) ==
  IF message = <<>> THEN FALSE
  ELSE \E i \in 1..Len(message) : message[i] = "S"

\* /[^\w\s\-_.]/g removed; the tokens ":" is the only one outside the class
sanitizeUsername(username) ==
  IF username = <<>> THEN Anonymous
  ELSE LET cleaned == Trim(Remove(SliceFirst(Trim(username), 50), {":"}))
       IN  IF cleaned = <<>> THEN Anonymous ELSE cleaned

\* ----- tags ---------------------------------------------------------------
\* `${key}:${value}`
MakeTag(key, value) == <<key, ":">> \o value

RECURSIVE UpToColon(_)
UpToColon(s) ==
  IF s = <<>> \/ Head(s) = ":" THEN <<>> ELSE <<Head(s)>> \o UpToColon(Tail(s))

\* tag.split(':', 2)[1]: the text between the first and the second colon
SplitSecond(tag) ==
  LET first == UpToColon(tag)
      rest  == SubSeq(tag, Len(first) + 2, Len(tag))
  IN  UpToColon(rest)

\* tags.find(tag => tag.startsWith(`${key}:`)), then split; null is <<>>,
\* which the callers' `|| default` treats like the empty string
getTagValue(tagList, key) ==
  LET hits == {i \in 1..Len(tagList) :
                 Len(tagList[i]) >= 2 /\ tagList[i][1] = key /\ tagList[i][2] = ":"}
  IN  IF hits = {} THEN <<>>
      ELSE LET i == CHOOSE j \in hits : \A k \in hits : j <= k
           IN  SplitSecond(tagList[i])

OrDefault(value, default) == IF value = <<>> THEN default ELSE value

\* ----- rate limiter ------------------------------------------------------
\* UserRateLimit; blockedUntil = 0 stands for undefined (both are falsy)
NewLimitFull(t) == [tokens |-> maxRequests, lastRefill |-> t, blockedUntil |-> 0]

NewLimit(t) == [tokens |-> maxRequests - 1, lastRefill |-> t, blockedUntil |-> 0]

StillBlockedNever(ul, t) == FALSE

StillBlockedAtEnd(ul, t) == ul.blockedUntil # 0 /\ t <= ul.blockedUntil

\* userLimit.blockedUntil && now < userLimit.blockedUntil
StillBlocked(ul, t) == ul.blockedUntil # 0 /\ t < ul.blockedUntil

RefuseAndExtend(ul, t) ==
  [allowed |-> FALSE, blockedUntil |-> t + blockDurationMs,
   limit |-> [ul EXCEPT !.blockedUntil = t + blockDurationMs]]

\* return { allowed: false, blockedUntil: userLimit.blockedUntil }
Refuse(ul, t) ==
  [allowed |-> FALSE, blockedUntil |-> ul.blockedUntil, limit |-> ul]

SpendNothing(ul) == ul

\* userLimit.tokens--
Spend(ul) == [ul EXCEPT !.tokens = @ - 1]

\* Math.floor(timePassed / (windowMs / maxRequests))
TokensToAdd(timePassed) == (timePassed * maxRequests) \div windowMs

RefillStale(ul, tokensToAdd, t) == [ul EXCEPT !.lastRefill = t]

RefillUncapped(ul, tokensToAdd, t) ==
  [ul EXCEPT !.tokens = @ + tokensToAdd, !.lastRefill = t]

\* userLimit.tokens = Math.min(maxRequests, userLimit.tokens + tokensToAdd);
\* userLimit.lastRefill = now
Refill(ul, tokensToAdd, t) ==
  [ul EXCEPT !.tokens = Min(maxRequests, @ + tokensToAdd), !.lastRefill = t]

\* checkRateLimit(userId) at Date.now() = t on the map m: the result and the
\* entry of userId after the call
checkRateLimit(m, userId, t) ==
  IF userId \notin DOMAIN m
  THEN [allowed |-> TRUE, blockedUntil |-> 0, limit |-> NewLimit(t)]
  ELSE LET ul == m[userId] IN
       IF StillBlocked(ul, t)
       THEN Refuse(ul, t)
       ELSE LET expired == IF ul.blockedUntil # 0 /\ t >= ul.blockedUntil
                           THEN [tokens |-> maxRequests, lastRefill |-> t,
                                 blockedUntil |-> 0]
                           ELSE ul
                tokensToAdd == TokensToAdd(t - expired.lastRefill)
                refilled == IF tokensToAdd > 0
                            THEN Refill(expired, tokensToAdd, t)
                            ELSE expired
            IN  IF refilled.tokens <= 0
                THEN [allowed |-> FALSE, blockedUntil |-> t + blockDurationMs,
                      limit |-> [refilled EXCEPT !.blockedUntil = t + blockDurationMs]]
                ELSE [allowed |-> TRUE, blockedUntil |-> 0,
                      limit |-> Spend(refilled)]

SetLimit(m, userId, limit) ==
  [k \in DOMAIN m \cup {userId} |-> IF k = userId THEN limit ELSE m[k]]

RemainingTimeFloor(blockedUntil, t) ==
  IF blockedUntil = 0 THEN 0 ELSE (blockedUntil - t) \div 1000

\* Math.ceil((blockedUntil - Date.now()) / 1000), 0 when blockedUntil is falsy
RemainingTime(blockedUntil, t) ==
  IF blockedUntil = 0 THEN 0 ELSE (blockedUntil - t + 999) \div 1000

\* ----- registry and presence ---------------------------------------------
\* ctx.getWebSockets() of the accepted set S, as an array
RECURSIVE getWebSockets(_)
getWebSockets(S) ==
  IF S = {} THEN <<>>
  ELSE LET w == CHOOSE x \in S : \A y \in S : x <= y
       IN  <<w>> \o getWebSockets(S \ {w})

\* [...new Set(usernames)]: first occurrences, in order
RECURSIVE Dedup(_)
Dedup(s) ==
  IF s = <<>> THEN <<>>
  ELSE LET front == Dedup(SubSeq(s, 1, Len(s) - 1))
           x == s[Len(s)]
       IN  IF \E i \in 1..Len(front) : front[i] = x THEN front ELSE Append(front, x)

getOnlineUsersNoDedup(S, tg) ==
  LET webSockets == getWebSockets(S)
  IN  [i \in 1..Len(webSockets) |->
         OrDefault(getTagValue(tg[webSockets[i]], "username"), Anonymous)]

getOnlineUsers(S, tg) ==
  LET webSockets == getWebSockets(S)
      usernames == [i \in 1..Len(webSockets) |->
                      OrDefault(getTagValue(tg[webSockets[i]], "username"), Anonymous)]
  IN  Dedup(usernames)

\* ----- history -----------------------------------------------------------
addToHistoryKeepOldest(history, message) ==
  LET pushed == Append(history, message)
  IN  IF Len(pushed) > maxHistorySize THEN SubSeq(pushed, 1, maxHistorySize)
      ELSE pushed

addToHistoryFront(history, message) ==
  LET pushed == <<message>> \o history
  IN  IF Len(pushed) > maxHistorySize THEN SliceLast(pushed, maxHistorySize)
      ELSE pushed

addToHistory(history, message) ==
  LET pushed == Append(history, message)
  IN  IF Len(pushed) > maxHistorySize THEN SliceLast(pushed, maxHistorySize)
      ELSE pushed

HistoryReplayAll(history) == history

\* this.messageHistory.slice(-20)
HistoryReplay(history) == SliceLast(history, HistorySlice)

\* ----- outbound checks ---------------------------------------------------
ChatMessage(id, userId, username, message, type) ==
  [id |-> id, userId |-> userId, username |-> username, message |-> message,
   type |-> type]

WithUsers(message, onlineUsers) ==
  [id |-> message.id, userId |-> message.userId, username |-> message.username,
   message |-> message.message, type |-> message.type, onlineUsers |-> onlineUsers]

\* the socket.send calls of one loop over ctx.getWebSockets(), in order
RECURSIVE SendAll(_, _, _)
SendAll(webSockets, excludeSocket, data) ==
  IF webSockets = <<>> THEN <<>>
  ELSE IF Head(webSockets) = excludeSocket
       THEN SendAll(Tail(webSockets), excludeSocket, data)
       ELSE <<[to |-> Head(webSockets), data |-> data]>>
              \o SendAll(Tail(webSockets), excludeSocket, data)

NoSocket == 0

broadcastMessageFirstOnly(S, message, excludeSocket) ==
  SendAll(SliceFirst(getWebSockets(S), 1), excludeSocket, message)

broadcastMessage(S, message, excludeSocket) ==
  SendAll(getWebSockets(S), excludeSocket, message)

broadcastWithUserCountToAll(S, tg, message, excludeSocket) ==
  SendAll(getWebSockets(S), NoSocket, WithUsers(message, getOnlineUsers(S, tg)))

broadcastWithUserCount(S, tg, message, excludeSocket) ==
  SendAll(getWebSockets(S), excludeSocket, WithUsers(message, getOnlineUsers(S, tg)))

sendToSocket(webSocket, data) == <<[to |-> webSocket, data |-> data]>>

\* a send loop without try/catch: the first send that throws ends it
RECURSIVE SendUncaught(_, _)
SendUncaught(sends, bad) ==
  IF sends = <<>> THEN [attempts |-> <<>>, error |-> FALSE]
  ELSE IF Head(sends).to \in bad THEN [attempts |-> <<Head(sends)>>, error |-> TRUE]
  ELSE LET rest == SendUncaught(Tail(sends), bad)
       IN  [attempts |-> <<Head(sends)>> \o rest.attempts, error |-> rest.error]

\* try { socket.send(...) } catch (error) { console.error(...) } around every
\* send: the sends to the sockets of bad throw, every send is attempted and
\* no error leaves the loop
TrySend(sends, bad) == [attempts |-> sends, error |-> FALSE]

\* the sends that reached their recipient
Delivered(sends, bad) == SelectSeq(sends, LAMBDA s : s.to \notin bad)

\* the chat events among the sends, appended to each recipient's stream
RECURSIVE Deliver(_, _)
Deliver(rcv, sends) ==
  IF sends = <<>> THEN rcv
  ELSE LET s == Head(sends)
           next == IF s.data.type \in {"message", "join", "leave"}
                   THEN [rcv EXCEPT ![s.to] = Append(@,
                           ChatMessage(s.data.id, s.data.userId, s.data.username,
                                       s.data.message, s.data.type))]
                   ELSE rcv
       IN  Deliver(next, Tail(sends))

\* ----- the handlers -------------------------------------------------------
\* no HTTP response produced yet
NoResponse == [status |-> 0]

\* fetch() with an upgrade header: handleWebSocket(request)
HandleWebSocket(rawUserId, rawUsername) ==
  LET server == nextConn
      userId == OrDefault(rawUserId, anonymous)
      username == sanitizeUsername(OrDefault(rawUsername, <<"User">>))
      tg == [tags EXCEPT ![server] = <<MakeTag("userId", userId),
                                        MakeTag("username", username),
                                        MakeTag("joinedAt", <<"t">>)>>]
      accepted == sockets \cup {server}
      welcome == sendToSocket(server,
                   [type |-> "system", message |-> <<"Welcome">> \o username,
                    onlineUsers |-> getOnlineUsers(accepted, tg)])
      replay == IF Len(messageHistory) > 0
                THEN sendToSocket(server,
                       [type |-> "history",
                        messages |-> HistoryReplay(messageHistory),
                        onlineUsers |-> getOnlineUsers(accepted, tg)])
                ELSE <<>>
      joinMessage == ChatMessage(nextId, userId, username,
                                 username \o <<"joined">>, "join")
      out == TrySend(welcome \o replay
                       \o broadcastWithUserCount(accepted, tg, joinMessage, server),
                     failing)
  IN  /\ tags' = tg
      /\ sockets' = accepted
      /\ sent' = out.attempts
      /\ received' = Deliver(received, Delivered(out.attempts, failing))
      /\ messageHistory' = IF out.error THEN messageHistory
                           ELSE addToHistory(messageHistory, joinMessage)
      /\ nextId' = nextId + 1
      /\ nextConn' = nextConn + 1
      /\ last' = [op |-> "connect", ws |-> server, frame |-> NoMessage,
                  raised |-> out.error]
      /\ response' = IF out.error THEN NoResponse ELSE [status |-> 101]
      /\ UNCHANGED <<rateLimitMap, now, checks, failing, roomVars, instances, elsewhere>>

DispatchUnfiltered(ws, frame, userId, username) ==
  IF frame.kind = "message"
  THEN LET chatMessage == ChatMessage(nextId, userId, username,
                                      sanitizeChatMessage(frame.message), "message")
       IN  [sends |-> broadcastMessage(sockets, chatMessage, NoSocket),
            event |-> <<chatMessage>>]
  ELSE [sends |-> <<>>, event |-> <<>>]

IsBlankUntrimmed(sanitizedMessage) == sanitizedMessage = <<>>

\* !sanitizedMessage.trim()
IsBlank(sanitizedMessage) == Trim(sanitizedMessage) = <<>>

\* the reply and the effects of webSocketMessage(ws, message) after JSON.parse
\* succeeded and the rate limit allowed the frame
Dispatch(ws, frame, userId, username) ==
  IF frame.kind = "null"
  THEN \* data.type throws on null: the catch block answers
       [sends |-> sendToSocket(ws, [type |-> "error",
                                   message |-> <<"Invalid message format">>]),
        event |-> <<>>]
  ELSE IF frame.kind = "message"
  THEN LET rawMessage == frame.message
           sanitizedMessage == sanitizeChatMessage(rawMessage)
           chatMessage == ChatMessage(nextId, userId, username,
                                      sanitizedMessage, "message")
       IN  IF containsSuspiciousContent(rawMessage)
           THEN [sends |-> sendToSocket(ws, [type |-> "error",
                             message |-> <<"Message contains potentially harmful content and was blocked.">>]),
                 event |-> <<>>]
           ELSE IF IsBlank(sanitizedMessage)
           THEN [sends |-> <<>>, event |-> <<>>]
           ELSE [sends |-> broadcastMessage(sockets, chatMessage, NoSocket),
                 event |-> <<chatMessage>>]
  ELSE IF frame.kind = "ping"
  THEN [sends |-> sendToSocket(ws, [type |-> "pong"]), event |-> <<>>]
  ELSE [sends |-> <<>>, event |-> <<>>]

WebSocketMessage(ws, frame) ==
  /\ ws \in sockets
  /\ UNCHANGED <<failing, response, roomVars, instances, elsewhere>>
  /\ IF frame.kind = "invalid"
     THEN \* JSON.parse throws before anything else runs
          LET out == TrySend(sendToSocket(ws, [type |-> "error",
                               message |-> <<"Invalid message format">>]), failing)
          IN  /\ sent' = out.attempts
              /\ last' = [op |-> "message", ws |-> ws, frame |-> frame,
                          raised |-> out.error]
              /\ UNCHANGED <<sockets, tags, messageHistory, rateLimitMap, now,
                             nextId, nextConn, received, checks>>
     ELSE LET userId == OrDefault(getTagValue(tags[ws], "userId"), anonymous)
              username == OrDefault(getTagValue(tags[ws], "username"), Anonymous)
              rateLimitResult == checkRateLimit(rateLimitMap, userId, now)
              handled == Dispatch(ws, frame, userId, username)
              sends == IF rateLimitResult.allowed THEN handled.sends
                       ELSE sendToSocket(ws,
                              [type |-> "rate_limit_exceeded",
                               blockedUntil |-> rateLimitResult.blockedUntil,
                               remainingTime |->
                                 RemainingTime(rateLimitResult.blockedUntil, now)])
              out == TrySend(sends, failing)
              event == IF rateLimitResult.allowed /\ ~out.error
                       THEN handled.event ELSE <<>>
          IN  /\ rateLimitMap' = SetLimit(rateLimitMap, userId, rateLimitResult.limit)
              /\ last' = [op |-> "message", ws |-> ws, frame |-> frame,
                          raised |-> out.error]
              /\ checks' = [k \in DOMAIN checks \cup {userId} |->
                              IF k # userId THEN checks[k]
                              ELSE IF k \in DOMAIN checks
                                   THEN [checks[k] EXCEPT !.n = @ + 1]
                                   ELSE [n |-> 1, first |-> now]]
              /\ sent' = out.attempts
              /\ received' = Deliver(received, Delivered(out.attempts, failing))
              /\ messageHistory' = IF event = <<>> THEN messageHistory
                                   ELSE addToHistory(messageHistory, event[1])
              /\ nextId' = IF event = <<>> THEN nextId ELSE nextId + 1
              /\ UNCHANGED <<sockets, tags, now, nextConn>>

\* rateLimitMap after webSocketClose for a connection of userId: the handler
\* has no statement that touches the map
LimitsForgotten(m, userId) == [k \in DOMAIN m \ {userId} |-> m[k]]

LimitsAfterClose(m, userId) == m

\* webSocketClose(ws, ...): the runtime may or may not still list ws among
\* ctx.getWebSockets() while the handler runs, and drops it afterwards
WebSocketClose(ws, listed) ==
  /\ ws \in sockets
  /\ LET userId == OrDefault(getTagValue(tags[ws], "userId"), anonymous)
         username == OrDefault(getTagValue(tags[ws], "username"), Anonymous)
         leaveMessage == ChatMessage(nextId, userId, username,
                                     username \o <<"left">>, "leave")
         visible == IF listed THEN sockets ELSE sockets \ {ws}
         out == TrySend(broadcastWithUserCount(visible, tags, leaveMessage, ws),
                        failing)
     IN  /\ sent' = out.attempts
         /\ received' = Deliver(received, Delivered(out.attempts, failing))
         /\ messageHistory' = IF out.error THEN messageHistory
                              ELSE addToHistory(messageHistory, leaveMessage)
         /\ nextId' = nextId + 1
         /\ sockets' = sockets \ {ws}
         /\ failing' = failing \ {ws}
         /\ last' = [op |-> "close", ws |-> ws, frame |-> NoMessage,
                     raised |-> out.error]
         /\ rateLimitMap' = LimitsAfterClose(rateLimitMap, userId)
         /\ UNCHANGED <<tags, now, nextConn, checks, response,
                        roomVars, instances, elsewhere>>

\* webSocketError(ws, error): the handler logs; the runtime may keep the
\* socket among ctx.getWebSockets() or drop it
WebSocketError(ws, dropped) ==
  /\ ws \in sockets
  /\ sockets' = IF dropped THEN sockets \ {ws} ELSE sockets
  /\ failing' = IF dropped THEN failing \ {ws} ELSE failing
  /\ sent' = <<>>
  /\ last' = [op |-> "error", ws |-> ws, frame |-> NoMessage, raised |-> FALSE]
  /\ UNCHANGED <<tags, messageHistory, rateLimitMap, now, nextId, nextConn,
                 received, checks, response, roomVars, instances, elsewhere>>

\* getRoomInfo(): the body of the response
getRoomInfoCountsUsers(S, tg, history) ==
  [activeConnections |-> Len(getOnlineUsers(S, tg)),
   users |-> [i \in 1..Len(getWebSockets(S)) |->
                [userId |-> getTagValue(tg[getWebSockets(S)[i]], "userId"),
                 username |-> getTagValue(tg[getWebSockets(S)[i]], "username")]],
   messageCount |-> Len(history)]

getRoomInfo(S, tg, history) ==
  LET webSockets == getWebSockets(S)
  IN  [activeConnections |-> Len(webSockets),
       users |-> [i \in 1..Len(webSockets) |->
                    [userId |-> getTagValue(tg[webSockets[i]], "userId"),
                     username |-> getTagValue(tg[webSockets[i]], "username")]],
       messageCount |-> Len(history)]

\* getMessageHistory(): the body of the response
getMessageHistory(history) == [messages |-> history, count |-> Len(history)]

Paths == {"/info", "/history", "/"}

\* fetch(request) without an upgrade header
Fetch(pathname) ==
  /\ response' = IF pathname = "/info"
                 THEN [status |-> 200,
                       body |-> getRoomInfo(sockets, tags, messageHistory)]
                 ELSE IF pathname = "/history"
                 THEN [status |-> 200, body |-> getMessageHistory(messageHistory)]
                 ELSE [status |-> 404]
  /\ sent' = <<>>
  /\ last' = [op |-> "fetch", ws |-> NoSocket, frame |-> <<pathname>>,
              raised |-> FALSE]
  /\ UNCHANGED <<sockets, tags, messageHistory, rateLimitMap, now, nextId,
                 nextConn, received, checks, failing, roomVars, instances, elsewhere>>

\* from now on socket.send throws for ws: its peer is gone or its buffer is
\* full, and the runtime has not reported a close yet
SendFails(ws) ==
  /\ ws \in sockets \ failing
  /\ failing' = failing \cup {ws}
  /\ UNCHANGED <<sockets, tags, messageHistory, rateLimitMap, now, nextId,
                 nextConn, sent, received, checks, last, response, roomVars, instances, elsewhere>>

\* Date.now() advances between handler invocations
Tick(d) ==
  /\ now' = now + d
  /\ UNCHANGED <<sockets, tags, messageHistory, rateLimitMap, nextId, nextConn,
                 sent, received, checks, last, failing, response, roomVars, instances, elsewhere>>

\* ----- the validator and the client at their construction -------------------
\* private requests = new Map<string, number[]>()
NoRequests == [identifier \in {} |-> <<>>]
\* wsRef.current === null
NoWebSocket == 0
\* the ids of the sockets the client may create
ClientHandles == 1..ClientSockets
\* no socket has been created
NoWebSockets == [ws \in ClientHandles |-> "none"]
\* useState(...) and useRef(null) of ChatRoom
NewChat ==
  [messages |-> <<>>, isConnected |-> FALSE, connectionStatus |-> "disconnected",
   onlineUsers |-> <<>>, hasInitialLoad |-> FALSE, wsRef |-> NoWebSocket]
ClientIdle == [op |-> "init", ws |-> NoWebSocket, ids |-> <<>>]

\* ----- the room from its construction -------------------------------------
NoTags == <<>>
NoLimits == [k \in {} |-> NewLimit(0)]
NoChecks == [k \in {} |-> [n |-> 0, first |-> 0]]
Idle == [op |-> "init", ws |-> NoSocket, frame |-> NoMessage, raised |-> FALSE]
\* new Facet(ctx, env): the fields of an instance after its construction
NewFacet ==
  [sockets |-> {}, messageHistory |-> <<>>, rateLimitMap |-> NoLimits]
NoSessions == [c \in {} |-> [userId |-> <<>>, username |-> <<>>]]

TotalChecks ==
  LET RECURSIVE Sum(_)
      Sum(K) == IF K = {} THEN 0
                ELSE LET k == CHOOSE x \in K : TRUE IN checks[k].n + Sum(K \ {k})
  IN  Sum(DOMAIN checks)

\* handler invocations so far: upgrades, inbound checks and closes
Steps == (nextConn - 1) + TotalChecks + ((nextConn - 1) - Cardinality(sockets))

Init ==
  /\ sockets = {}
  /\ tags = [c \in Conns |-> NoTags]
  /\ messageHistory = <<>>
  /\ rateLimitMap = NoLimits
  /\ now = 0
  /\ nextId = 1
  /\ nextConn = 1
  /\ sent = <<>>
  /\ received = [c \in Conns |-> <<>>]
  /\ checks = NoChecks
  /\ last = Idle
  /\ failing = {}
  /\ response = NoResponse
  /\ sessions = NoSessions
  /\ open = {}
  /\ facet = general
  /\ facets = [name \in FacetNames |-> NewFacet]
  /\ requests = NoRequests
  /\ calls = <<>>
  /\ chat = NewChat
  /\ wsockets = NoWebSockets
  /\ clientLast = ClientIdle

Next ==
  \/ \E who \in Identities :
       /\ nextConn <= MaxConns /\ Steps < MaxSteps
       /\ HandleWebSocket(who.userId, who.username)
  \/ \E ws \in sockets, frame \in ChatFrames :
       /\ TotalChecks < MaxFrames /\ Steps < MaxSteps
       /\ WebSocketMessage(ws, frame)
  \/ \E ws \in sockets, listed \in BOOLEAN :
       Steps < MaxSteps /\ WebSocketClose(ws, listed)
  \/ \E d \in TickMs : now + d <= MaxNow /\ Tick(d)

Spec == Init /\ [][Next]_vars

\* ----- a room that has already seen visitors come and go ------------------
\* the history after n/2 visits (an upgrade, then a close) of one user
Visitor == [userId |-> <<"u2">>, username |-> <<"B">>]
PastEvents(n) ==
  [i \in 1..n |->
     IF i % 2 = 1
     THEN ChatMessage(i, Visitor.userId, Visitor.username,
                      Visitor.username \o <<"joined">>, "join")
     ELSE ChatMessage(i, Visitor.userId, Visitor.username,
                      Visitor.username \o <<"left">>, "leave")]
HistFills == {0, 18, 94, 98}

InitHist ==
  \E n \in HistFills :
    /\ sockets = {}
    /\ tags = [c \in Conns |-> NoTags]
    /\ messageHistory = PastEvents(n)
    /\ rateLimitMap = NoLimits
    /\ now = 0
    /\ nextId = n + 1
    /\ nextConn = 1
    /\ sent = <<>>
    /\ received = [c \in Conns |-> <<>>]
    /\ checks = NoChecks
    /\ last = Idle
    /\ failing = {}
    /\ response = NoResponse
    /\ sessions = NoSessions
    /\ open = {}
    /\ facet = general
    /\ facets = [name \in FacetNames |-> NewFacet]
    /\ requests = NoRequests
    /\ calls = <<>>
    /\ chat = NewChat
    /\ wsockets = NoWebSockets
    /\ clientLast = ClientIdle

NextHist ==
  \/ \E who \in Identities :
       /\ nextConn <= HistConns /\ Steps < HistSteps
       /\ HandleWebSocket(who.userId, who.username)
  \/ \E ws \in sockets :
       /\ TotalChecks < HistFrames /\ Steps < HistSteps
       /\ WebSocketMessage(ws, [kind |-> "message", message |-> <<"T", "_", "h">>])
  \/ \E ws \in sockets, listed \in BOOLEAN :
       Steps < HistSteps /\ WebSocketClose(ws, listed)

SpecHist == InitHist /\ [][NextHist]_vars

\* ----- one user, connected before the burst, sending a burst of frames -----
Sender == [userId |-> <<"u1", ":", "x">>, username |-> <<"A">>]

NextRate ==
  \/ /\ nextConn <= RateConns /\ TotalChecks = 0
     /\ HandleWebSocket(Sender.userId, Sender.username)
  \/ \E ws \in sockets, frame \in RateFrames :
       /\ TotalChecks < MaxBurst
       /\ frame.message # Hello => TotalChecks >= CleanPrefix
       /\ WebSocketMessage(ws, frame)
  \/ \E d \in TickMs :
       /\ now + d <= MaxNowRate /\ (now + d) % blockDurationMs <= MaxDrift
       /\ Tick(d)

SpecRate == Init /\ [][NextRate]_vars

\* ----- one user whose pings arrive at any pace --------------------------------
\* pings pass through checkRateLimit like every frame and leave the history
\* alone
Ping == [kind |-> "ping", message |-> NoMessage]

NextPing ==
  \/ /\ nextConn <= PingConns /\ TotalChecks = 0
     /\ HandleWebSocket(Sender.userId, Sender.username)
  \/ \E ws \in sockets :
       TotalChecks < PingBurst /\ WebSocketMessage(ws, Ping)
  \/ \E d \in PingTicks :
       /\ now + d <= MaxNowPing /\ (now + d) % blockDurationMs <= PingDrift
       /\ Tick(d)

SpecPing == Init /\ [][NextPing]_vars

\* ----- one user who closes and connects again --------------------------------
StayTicks == {30000}

NextStay ==
  \/ /\ nextConn <= StayConns /\ sockets = {}
     /\ HandleWebSocket(Sender.userId, Sender.username)
  \/ \E ws \in sockets :
       TotalChecks < StayBurst /\ WebSocketMessage(ws, Ping)
  \/ \E ws \in sockets, listed \in BOOLEAN : WebSocketClose(ws, listed)
  \/ \E d \in StayTicks : now + d <= MaxNowStay /\ Tick(d)

SpecStay == Init /\ [][NextStay]_vars

\* ----- one user sending frames that the content checks turn away ---------------
\* a text flagged as suspicious and a text that sanitizes to a blank
JunkFrames == [kind : {"message"}, message : {<<"S", "h">>, <<"_">>}]

NextJunk ==
  \/ /\ nextConn <= JunkConns /\ TotalChecks = 0
     /\ HandleWebSocket(Sender.userId, Sender.username)
  \/ \E ws \in sockets, frame \in JunkFrames :
       TotalChecks < JunkBurst /\ WebSocketMessage(ws, frame)
  \/ \E ws \in sockets :
       /\ TotalChecks \in maxRequests..(JunkBurst - 1)
       /\ WebSocketMessage(ws, [kind |-> "message", message |-> Hello])
  \/ /\ now + 1000 <= MaxNowJunk /\ Tick(1000)

SpecJunk == Init /\ [][NextJunk]_vars

\* ----- one user who lets a refill increment pass before every frame ------------
\* one refill increment (windowMs / maxRequests), and one and a half
PaceWaits == {windowMs \div maxRequests, (3 * windowMs) \div (2 * maxRequests)}

\* the user waits d ms
Wait(d) ==
  /\ now' = now + d
  /\ last' = [op |-> "wait", ws |-> NoSocket, frame |-> NoMessage, raised |-> FALSE]
  /\ UNCHANGED <<sockets, tags, messageHistory, rateLimitMap, nextId, nextConn,
                 sent, received, checks, failing, response, roomVars, instances, elsewhere>>

NextPace ==
  \/ /\ nextConn <= PaceConns /\ TotalChecks = 0
     /\ HandleWebSocket(Sender.userId, Sender.username)
  \/ \E ws \in sockets, frame \in {Ping, [kind |-> "message", message |-> <<"_">>]} :
       /\ TotalChecks < PaceBurst
       /\ TotalChecks = 0 \/ last.op = "wait"
       /\ WebSocketMessage(ws, frame)
  \/ \E d \in PaceWaits :
       now + d <= MaxNowPace /\ TotalChecks > 0 /\ Wait(d)

SpecPace == Init /\ [][NextPace]_vars

\* ----- the message validator's RateLimiter (src/unnamed/part_004) --------------
\* everything but the RateLimiter's own fields
roomState ==
  <<sockets, tags, messageHistory, rateLimitMap, nextId, nextConn, sent,
    received, checks, last, failing, response, roomVars, instances>>

\* the identifiers the callers pass
Identifiers == {"a", "b"}
\* half a window
ValidatorTicks == {windowMs \div 2}

\* this.requests.get(identifier) || []
RequestsOf(m, identifier) ==
  IF identifier \in DOMAIN m THEN m[identifier] ELSE <<>>

\* userRequests.filter((time) => time > windowStart)
Recent(userRequests, windowStart) ==
  SelectSeq(userRequests, LAMBDA time : time > windowStart)

\* this.requests.set(identifier, value)
SetRequests(m, identifier, value) ==
  [k \in DOMAIN m \cup {identifier} |-> IF k = identifier THEN value ELSE m[k]]

RecordDenied(m, identifier, recentRequests, t) ==
  SetRequests(m, identifier, Append(recentRequests, t))

\* if (recentRequests.length >= this.maxRequests) return false: the map is
\* left as it was
Deny(m, identifier, recentRequests, t) == m

\* new RateLimiter(windowMs, ValidatorMax).isAllowed(identifier) at
\* Date.now() = t on the map m: the result and the map after the call
isAllowed(m, identifier, t) ==
  LET windowStart == t - windowMs
      userRequests == RequestsOf(m, identifier)
      recentRequests == Recent(userRequests, windowStart)
  IN  IF Len(recentRequests) >= ValidatorMax
      THEN [allowed |-> FALSE,
            requests |-> Deny(m, identifier, recentRequests, t)]
      ELSE [allowed |-> TRUE,
            requests |-> SetRequests(m, identifier, Append(recentRequests, t))]

\* the map after cleanup() at Date.now() = t
cleanup(m, t) ==
  LET windowStart == t - windowMs
      kept == {identifier \in DOMAIN m : Recent(m[identifier], windowStart) # <<>>}
  IN  [identifier \in kept |-> Recent(m[identifier], windowStart)]

IsAllowed(identifier) ==
  LET result == isAllowed(requests, identifier, now)
  IN  /\ requests' = result.requests
      /\ calls' = Append(calls, [identifier |-> identifier, time |-> now,
                                 allowed |-> result.allowed])
      /\ UNCHANGED <<now, roomState, clientVars>>

Cleanup ==
  /\ requests' = cleanup(requests, now)
  /\ UNCHANGED <<calls, now, roomState, clientVars>>

NextValidator ==
  \/ \E identifier \in Identifiers :
       Len(calls) < ValidatorCalls /\ IsAllowed(identifier)
  \/ Cleanup
  \/ \E d \in ValidatorTicks : now + d <= MaxNowValidator /\ Tick(d)

SpecValidator == Init /\ [][NextValidator]_vars

\* ----- the chat client (src/unnamed/part_003) ----------------------------------
\* everything but the client's own state
serverState == <<now, roomState, validatorVars>>

\* data.id of a frame without an id field (the welcome of the room)
NoId == 0
\* the events of the room in the order of its history: messages, with a
\* join between them; ids stand for the UUIDs
ServerEvents ==
  [i \in 1..ClientEvents |->
     [id |-> i, type |-> IF i % 2 = 1 THEN "message" ELSE "join"]]
OnlineNow == <<"A">>
\* the frames a room sends to a connection: a message or join event, the
\* welcome, a replay of a stretch of the history, and a pong
ClientFrames ==
  {[type |-> ServerEvents[i].type, id |-> i, messages |-> <<>>,
    onlineUsers |-> IF ServerEvents[i].type = "join" THEN OnlineNow ELSE <<>>] :
     i \in 1..ClientEvents}
  \cup {[type |-> "system", id |-> NoId, messages |-> <<>>, onlineUsers |-> OnlineNow]}
  \cup {[type |-> "history", id |-> NoId,
         messages |-> SubSeq(ServerEvents, stretch[1], stretch[2]),
         onlineUsers |-> OnlineNow] :
          stretch \in {r \in (1..ClientEvents) \X (1..ClientEvents) : r[1] <= r[2]}}
  \cup {[type |-> "pong", id |-> NoId, messages |-> <<>>, onlineUsers |-> <<>>]}

\* the socket new WebSocket(wsUrl) returns: one not created before
NewWebSocket(w) == CHOOSE ws \in ClientHandles :
                     w[ws] = "none" /\ \A other \in ClientHandles :
                                         w[other] = "none" => ws <= other

\* readyState after ws.close(1000, ...)
CloseCalled(readyState) ==
  IF readyState \in {"connecting", "open"} THEN "closing" ELSE readyState

\* connect() with a current user: the state and the sockets after the call
connect(c, w) ==
  LET ws == NewWebSocket(w)
  IN  [chat |-> [c EXCEPT !.connectionStatus = "connecting",
                          !.hasInitialLoad = FALSE, !.wsRef = ws],
       wsockets |-> [w EXCEPT ![ws] = "connecting"]]

\* disconnect()
disconnect(c, w) ==
  [chat |-> [c EXCEPT !.wsRef = NoWebSocket, !.hasInitialLoad = FALSE,
                      !.onlineUsers = <<>>],
   wsockets |-> IF c.wsRef # NoWebSocket
                THEN [w EXCEPT ![c.wsRef] = CloseCalled(@)] ELSE w]

AppendAlways(prev, data) == Append(prev, [id |-> data.id, type |-> data.type])

\* prev.some((msg) => msg.id === data.id) ? prev : [...prev, data]
AppendIfNew(prev, data) ==
  IF \E i \in 1..Len(prev) : prev[i].id = data.id THEN prev
  ELSE Append(prev, [id |-> data.id, type |-> data.type])

\* the history case: the entries of type message or system whose ids are not
\* among those of prev, appended to prev
AppendHistory(prev, messages) ==
  LET chatMessages == SelectSeq(messages,
                        LAMBDA msg : msg.type \in {"message", "system"})
      existingIds == {prev[i].id : i \in 1..Len(prev)}
      newMessages == SelectSeq(chatMessages, LAMBDA msg : msg.id \notin existingIds)
  IN  prev \o newMessages

\* if (data.onlineUsers && Array.isArray(data.onlineUsers)): a frame without
\* the field is <<>> here
WithOnlineUsers(c, data) ==
  IF data.onlineUsers # <<>> THEN [c EXCEPT !.onlineUsers = data.onlineUsers]
  ELSE c

\* ws.onmessage
onmessage(c, data) ==
  IF data.type = "message" THEN [c EXCEPT !.messages = AppendIfNew(@, data)]
  ELSE IF data.type \in {"join", "leave", "userCount"} THEN WithOnlineUsers(c, data)
  ELSE IF data.type = "system"
  THEN WithOnlineUsers([c EXCEPT !.messages = AppendIfNew(@, data)], data)
  ELSE IF data.type = "history"
  THEN WithOnlineUsers(
         IF data.messages # <<>>
         THEN [c EXCEPT !.messages = AppendHistory(@, data.messages)] ELSE c,
         data)
  ELSE c

\* the ids of the entries a frame brings for the list
IdsOf(data) ==
  IF data.type \in {"message", "system"} THEN <<data.id>>
  ELSE IF data.type = "history"
  THEN [i \in 1..Len(data.messages) |-> data.messages[i].id]
  ELSE <<>>

\* the effect of lines 298-312 runs again: its cleanup, then its body
RunEffect ==
  /\ \E ws \in ClientHandles : wsockets[ws] = "none"
  /\ LET cleaned == disconnect(chat, wsockets)
         again == IF cleaned.chat.wsRef # NoWebSocket
                  THEN disconnect(cleaned.chat, cleaned.wsockets) ELSE cleaned
         result == connect(again.chat, again.wsockets)
     IN  /\ chat' = result.chat
         /\ wsockets' = result.wsockets
         /\ clientLast' = [op |-> "effect", ws |-> result.chat.wsRef, ids |-> <<>>]
  /\ UNCHANGED serverState

\* the Reconnect button, shown while !isConnected and not connecting
ClickReconnect ==
  /\ ~chat.isConnected /\ chat.connectionStatus # "connecting"
  /\ \E ws \in ClientHandles : wsockets[ws] = "none"
  /\ LET result == connect(chat, wsockets)
     IN  /\ chat' = result.chat
         /\ wsockets' = result.wsockets
         /\ clientLast' = [op |-> "click", ws |-> result.chat.wsRef, ids |-> <<>>]
  /\ UNCHANGED serverState

\* the open event of ws
OnOpen(ws) ==
  /\ wsockets[ws] = "connecting"
  /\ wsockets' = [wsockets EXCEPT ![ws] = "open"]
  /\ chat' = [chat EXCEPT !.isConnected = TRUE, !.connectionStatus = "connected",
                          !.hasInitialLoad = TRUE]
  /\ clientLast' = [op |-> "open", ws |-> ws, ids |-> <<>>]
  /\ UNCHANGED serverState

\* a message event of ws, which may still come after ws.close() was called
OnMessage(ws, data) ==
  /\ wsockets[ws] \in {"open", "closing"}
  /\ chat' = onmessage(chat, data)
  /\ clientLast' = [op |-> "message", ws |-> ws, ids |-> IdsOf(data)]
  /\ UNCHANGED <<wsockets, serverState>>

\* the error event of ws: the connection has failed, its close event follows
OnError(ws) ==
  /\ wsockets[ws] \in {"connecting", "open"}
  /\ wsockets' = [wsockets EXCEPT ![ws] = "lost"]
  /\ chat' = [chat EXCEPT !.connectionStatus = "error"]
  /\ clientLast' = [op |-> "error", ws |-> ws, ids |-> <<>>]
  /\ UNCHANGED serverState

\* the close event of ws with event.code = code
OnClose(ws, code) ==
  /\ wsockets[ws] \in {"connecting", "open", "closing", "lost"}
  /\ code # 1000 => \E free \in ClientHandles : wsockets[free] = "none"
  /\ LET closed == [chat EXCEPT !.isConnected = FALSE,
                                !.connectionStatus = "disconnected",
                                !.hasInitialLoad = FALSE, !.onlineUsers = <<>>]
         gone == [wsockets EXCEPT ![ws] = "closed"]
         result == IF code # 1000 THEN connect(closed, gone)
                   ELSE [chat |-> closed, wsockets |-> gone]
     IN  /\ chat' = result.chat
         /\ wsockets' = result.wsockets
  /\ clientLast' = [op |-> "close", ws |-> ws, ids |-> <<>>]
  /\ UNCHANGED serverState

\* 1000, and the code of a connection that broke
CloseCodes == {1000, 1006}

NextClient ==
  \/ RunEffect
  \/ ClickReconnect
  \/ \E ws \in ClientHandles : OnOpen(ws)
  \/ \E ws \in ClientHandles, data \in ClientFrames : OnMessage(ws, data)
  \/ \E ws \in ClientHandles : OnError(ws)
  \/ \E ws \in ClientHandles, code \in CloseCodes : OnClose(ws, code)

SpecClient == Init /\ [][NextClient]_vars

\* ----- users whose ids differ after a colon ----------------------------------
KeyIdentities ==
  {[userId |-> <<"u1", ":", "x">>, username |-> <<"A">>],
   [userId |-> <<"u1", ":", "y">>, username |-> <<"C">>],
   [userId |-> <<"u2">>, username |-> <<"B", ":">>]}

NextKeys ==
  \/ \E who \in KeyIdentities :
       nextConn <= KeyConns /\ HandleWebSocket(who.userId, who.username)
  \/ \E ws \in sockets, frame \in {Ping, [kind |-> "message", message |-> Hello]} :
       /\ TotalChecks < KeyChecks
       /\ WebSocketMessage(ws, frame)

SpecKeys == Init /\ [][NextKeys]_vars

\* ----- connections that end with a close or with an error --------------------
\* every connection brings a userId of its own: the first one with a colon,
\* the second one a username with a colon
ErrIdentity(c) ==
  IF c \in 1..2
  THEN CHOOSE who \in Identities : who.userId = IF c = 1 THEN <<"u1", ":", "x">>
                                                 ELSE <<"u2">>
  ELSE [userId |-> <<"u", ToString(c)>>, username |-> <<"A">>]

NextErr ==
  \/ /\ nextConn <= ErrConns /\ Steps < ErrSteps
     /\ HandleWebSocket(ErrIdentity(nextConn).userId,
                        ErrIdentity(nextConn).username)
  \/ \E ws \in sockets :
       /\ TotalChecks < ErrFrames /\ Steps < ErrSteps
       /\ WebSocketMessage(ws, [kind |-> "message", message |-> Hello])
  \/ \E ws \in sockets, listed \in BOOLEAN :
       Steps < ErrSteps /\ WebSocketClose(ws, listed)
  \/ \E ws \in sockets, dropped \in BOOLEAN :
       Steps < ErrSteps /\ WebSocketError(ws, dropped)

SpecErr == Init /\ [][NextErr]_vars

\* ----- every kind of inbound frame and the HTTP queries ---------------------
NextFrames ==
  \/ \E who \in Identities :
       nextConn <= FrameConns /\ HandleWebSocket(who.userId, who.username)
  \/ \E ws \in sockets, frame \in Frames :
       /\ TotalChecks < FrameChecks
       /\ WebSocketMessage(ws, frame)
  \/ \E pathname \in Paths : Fetch(pathname)

SpecFrames == Init /\ [][NextFrames]_vars

\* ----- the ChatRoom class of src/unnamed/part_006 ---------------------------
\* sessions: the Map from accepted socket to session; open: the accepted
\* sockets whose readyState is OPEN.  Handles grow with the order of accept,
\* so the iteration order of the Map is the order of the handles.
ChatRoom_sendToSocket(webSocket, data) ==
  IF webSocket \in open THEN <<[to |-> webSocket, data |-> data]>> ELSE <<>>

\* the sends of broadcastMessage(message, excludeSocket) over the Map sess
ChatRoom_broadcastMessage(sess, message, excludeSocket) ==
  SendAll(getWebSockets(DOMAIN sess \cap open), excludeSocket, message)

\* catch (error) { this.sessions.delete(socket) } around a send that throws
ChatRoom_deleteFailed(sess, sends, bad) ==
  [c \in DOMAIN sess \ {sends[i].to : i \in {j \in 1..Len(sends) : sends[j].to \in bad}}
     |-> sess[c]]

ChatRoom_unregisterNever(sess, webSocket) == sess

\* this.sessions.delete(webSocket)
ChatRoom_unregister(sess, webSocket) ==
  [c \in DOMAIN sess \ {webSocket} |-> sess[c]]

\* handleWebSocket(request) with server, the handle that new WebSocketPair()
\* returned
ChatRoom_accept(server, rawUserId, rawUsername) ==
  LET userId == OrDefault(rawUserId, anonymous)
      username == OrDefault(rawUsername, <<"User">>)
      withServer == [c \in DOMAIN sessions \cup {server} |->
                       IF c = server THEN [userId |-> userId, username |-> username]
                       ELSE sessions[c]]
      welcome == <<[to |-> server,
                    data |-> [type |-> "system",
                              message |-> <<"Welcome">> \o username]]>>
      replay == IF Len(messageHistory) > 0
                THEN <<[to |-> server,
                        data |-> [type |-> "history",
                                  messages |-> HistoryReplay(messageHistory)]]>>
                ELSE <<>>
      joinMessage == ChatMessage(nextId, userId, username,
                                 username \o <<"joined">>, "join")
      joins == SendAll(getWebSockets(DOMAIN sessions \cap open), server, joinMessage)
      out == TrySend(welcome \o replay \o joins, failing)
  IN  /\ open' = open \cup {server}
      /\ sessions' = ChatRoom_deleteFailed(withServer, joins, failing)
      /\ sent' = out.attempts
      /\ received' = Deliver(received, Delivered(out.attempts, failing))
      /\ messageHistory' = addToHistory(messageHistory, joinMessage)
      /\ nextId' = nextId + 1
      /\ nextConn' = IF server = nextConn THEN nextConn + 1 ELSE nextConn
      /\ last' = [op |-> "connect", ws |-> server, frame |-> NoMessage,
                  raised |-> out.error]
      /\ response' = [status |-> 101]
      /\ UNCHANGED <<sockets, tags, rateLimitMap, now, checks, failing, instances, elsewhere>>

\* every upgrade gets a new pair of sockets
ChatRoom_handleWebSocket(rawUserId, rawUsername) ==
  ChatRoom_accept(nextConn, rawUserId, rawUsername)

\* the 'message' listener: handleMessage(server, event.data)
ChatRoom_handleMessage(webSocket, frame) ==
  /\ last' = [op |-> "message", ws |-> webSocket, frame |-> frame,
              raised |-> FALSE]
  /\ UNCHANGED <<sockets, tags, rateLimitMap, now, checks, failing, response,
                 nextConn, open, instances, elsewhere>>
  /\ IF webSocket \notin DOMAIN sessions
     THEN \* if (!session) return
          /\ sent' = <<>>
          /\ UNCHANGED <<sessions, messageHistory, nextId, received>>
     ELSE IF frame.kind \in {"invalid", "null"}
     THEN \* JSON.parse or parsedData.type throws: the catch block answers
          /\ sent' = ChatRoom_sendToSocket(webSocket,
                        [type |-> "error", message |-> <<"Invalid message format">>])
          /\ UNCHANGED <<sessions, messageHistory, nextId, received>>
     ELSE IF frame.kind = "message"
     THEN LET session == sessions[webSocket]
              chatMessage == ChatMessage(nextId, session.userId, session.username,
                                         frame.message, "message")
              sends == ChatRoom_broadcastMessage(sessions, chatMessage, NoSocket)
          IN  /\ sent' = sends
              /\ received' = Deliver(received, Delivered(sends, failing))
              /\ sessions' = ChatRoom_deleteFailed(sessions, sends, failing)
              /\ messageHistory' = addToHistory(messageHistory, chatMessage)
              /\ nextId' = nextId + 1
     ELSE IF frame.kind = "ping"
     THEN /\ sent' = ChatRoom_sendToSocket(webSocket, [type |-> "pong"])
          /\ UNCHANGED <<sessions, messageHistory, nextId, received>>
     ELSE /\ sent' = <<>>
          /\ UNCHANGED <<sessions, messageHistory, nextId, received>>

\* the 'close' and 'error' listeners: handleDisconnect(server); after a
\* 'close' the readyState of the socket is CLOSED
ChatRoom_handleDisconnect(webSocket, event) ==
  /\ last' = [op |-> event, ws |-> webSocket, frame |-> NoMessage,
              raised |-> FALSE]
  /\ open' = IF event = "close" THEN open \ {webSocket} ELSE open
  /\ failing' = IF event = "close" THEN failing \ {webSocket} ELSE failing
  /\ UNCHANGED <<sockets, tags, rateLimitMap, now, checks, response, nextConn,
                 instances, elsewhere>>
  /\ IF webSocket \in DOMAIN sessions
     THEN LET session == sessions[webSocket]
              leaveMessage == ChatMessage(nextId, session.userId, session.username,
                                          session.username \o <<"left">>, "leave")
              sends == ChatRoom_broadcastMessage(sessions, leaveMessage, webSocket)
              kept == ChatRoom_deleteFailed(sessions, sends, failing)
          IN  /\ sent' = sends
              /\ received' = Deliver(received, Delivered(sends, failing))
              /\ messageHistory' = addToHistory(messageHistory, leaveMessage)
              /\ nextId' = nextId + 1
              /\ sessions' = ChatRoom_unregister(kept, webSocket)
     ELSE /\ sent' = <<>>
          /\ UNCHANGED <<sessions, messageHistory, nextId, received>>

\* from now on socket.send throws for a socket that is still OPEN
ChatRoom_SendFails(ws) ==
  /\ ws \in open \ failing
  /\ failing' = failing \cup {ws}
  /\ UNCHANGED <<sockets, tags, messageHistory, rateLimitMap, now, nextId,
                 nextConn, sent, received, checks, last, response, roomVars, instances, elsewhere>>

\* the frames and notifications of an accepted socket arrive in any order
\* and any number of times
RoomFrames == [kind : {"message"}, message : {Hello}]
                \cup [kind : {"ping", "invalid"}, message : {NoMessage}]

NextRoom ==
  \/ \E who \in Identities :
       /\ nextConn <= RoomConns /\ nextId <= RoomEvents
       /\ ChatRoom_handleWebSocket(who.userId, who.username)
  \/ \E ws \in 1..(nextConn - 1), frame \in RoomFrames :
       nextId <= RoomEvents /\ ChatRoom_handleMessage(ws, frame)
  \/ \E ws \in 1..(nextConn - 1), event \in {"close", "error"} :
       nextId <= RoomEvents /\ ChatRoom_handleDisconnect(ws, event)
  \/ \E ws \in open : ChatRoom_SendFails(ws)

SpecRoom == Init /\ [][NextRoom]_vars

\* a transport that may hand handleWebSocket a handle it has handed out before
NextDup ==
  \/ \E server \in 1..nextConn, who \in Identities :
       /\ server <= DupConns /\ nextId <= DupEvents
       /\ ChatRoom_accept(server, who.userId, who.username)
  \/ \E ws \in 1..(nextConn - 1), frame \in RoomFrames :
       nextId <= DupEvents /\ ChatRoom_handleMessage(ws, frame)
  \/ \E ws \in 1..(nextConn - 1) :
       nextId <= DupEvents /\ ChatRoom_handleDisconnect(ws, "close")

SpecDup == Init /\ [][NextDup]_vars

\* ----- the ChatRoom class of src/unnamed/part_005 ---------------------------
\* the hibernation API with tags, no sanitizer and no rate limiter
ChatRoom_acceptWebSocket(rawUserId, rawUsername) ==
  LET server == nextConn
      userId == OrDefault(rawUserId, anonymous)
      username == OrDefault(rawUsername, <<"User">>)
      tg == [tags EXCEPT ![server] = <<MakeTag("userId", userId),
                                        MakeTag("username", username),
                                        MakeTag("joinedAt", <<"t">>)>>]
      accepted == sockets \cup {server}
      welcome == sendToSocket(server,
                   [type |-> "system", message |-> <<"Welcome">> \o username,
                    onlineUsers |-> getOnlineUsers(accepted, tg)])
      replay == IF Len(messageHistory) > 0
                THEN sendToSocket(server,
                       [type |-> "history",
                        messages |-> HistoryReplay(messageHistory),
                        onlineUsers |-> getOnlineUsers(accepted, tg)])
                ELSE <<>>
      joinMessage == ChatMessage(nextId, userId, username,
                                 username \o <<"joined">>, "join")
      out == TrySend(welcome \o replay
                       \o broadcastWithUserCount(accepted, tg, joinMessage, server),
                     failing)
  IN  /\ tags' = tg
      /\ sockets' = accepted
      /\ sent' = out.attempts
      /\ received' = Deliver(received, Delivered(out.attempts, failing))
      /\ messageHistory' = addToHistory(messageHistory, joinMessage)
      /\ nextId' = nextId + 1
      /\ nextConn' = nextConn + 1
      /\ last' = [op |-> "connect", ws |-> server, frame |-> NoMessage,
                  raised |-> out.error]
      /\ response' = [status |-> 101]
      /\ UNCHANGED <<rateLimitMap, now, checks, failing, roomVars, instances, elsewhere>>

\* webSocketMessage(ws, message) of part_005
ChatRoom_webSocketMessage(ws, frame) ==
  /\ ws \in sockets
  /\ UNCHANGED <<sockets, tags, rateLimitMap, now, nextConn, checks, failing,
                 response, roomVars, instances, elsewhere>>
  /\ LET userId == OrDefault(getTagValue(tags[ws], "userId"), anonymous)
         username == OrDefault(getTagValue(tags[ws], "username"), Anonymous)
         chatMessage == ChatMessage(nextId, userId, username, frame.message,
                                    "message")
         sends == IF frame.kind \in {"invalid", "null"}
                  THEN sendToSocket(ws, [type |-> "error",
                                        message |-> <<"Invalid message format">>])
                  ELSE IF frame.kind = "message"
                  THEN broadcastMessage(sockets, chatMessage, NoSocket)
                  ELSE IF frame.kind = "ping"
                  THEN sendToSocket(ws, [type |-> "pong"])
                  ELSE <<>>
         out == TrySend(sends, failing)
     IN  /\ sent' = out.attempts
         /\ received' = Deliver(received, Delivered(out.attempts, failing))
         /\ last' = [op |-> "message", ws |-> ws, frame |-> frame,
                     raised |-> out.error]
         /\ messageHistory' = IF frame.kind = "message"
                              THEN addToHistory(messageHistory, chatMessage)
                              ELSE messageHistory
         /\ nextId' = IF frame.kind = "message" THEN nextId + 1 ELSE nextId

\* webSocketClose(ws, ...) of part_005
ChatRoom_webSocketClose(ws, listed) ==
  /\ ws \in sockets
  /\ LET userId == OrDefault(getTagValue(tags[ws], "userId"), anonymous)
         username == OrDefault(getTagValue(tags[ws], "username"), Anonymous)
         leaveMessage == ChatMessage(nextId, userId, username,
                                     username \o <<"left">>, "leave")
         visible == IF listed THEN sockets ELSE sockets \ {ws}
         out == TrySend(broadcastWithUserCount(visible, tags, leaveMessage, ws),
                        failing)
     IN  /\ sent' = out.attempts
         /\ received' = Deliver(received, Delivered(out.attempts, failing))
         /\ messageHistory' = addToHistory(messageHistory, leaveMessage)
         /\ nextId' = nextId + 1
         /\ sockets' = sockets \ {ws}
         /\ failing' = failing \ {ws}
         /\ last' = [op |-> "close", ws |-> ws, frame |-> NoMessage,
                     raised |-> out.error]
         /\ UNCHANGED <<tags, rateLimitMap, now, nextConn, checks, response,
                        roomVars, instances, elsewhere>>

TagFrames == [kind : {"message"}, message : RawMessages \cup {Hello}]
               \cup [kind : {"ping", "other", "invalid"}, message : {NoMessage}]

NextTags ==
  \/ \E who \in Identities :
       /\ nextConn <= TagConns /\ nextId <= TagEvents
       /\ ChatRoom_acceptWebSocket(who.userId, who.username)
  \/ \E ws \in sockets, frame \in TagFrames :
       nextId <= TagEvents /\ ChatRoom_webSocketMessage(ws, frame)
  \/ \E ws \in sockets, listed \in BOOLEAN :
       nextId <= TagEvents /\ ChatRoom_webSocketClose(ws, listed)

SpecTags == Init /\ [][NextTags]_vars

\* ----- two Facet instances behind the worker --------------------------------
\* the fields of the instance that is running
FacetFields ==
  [sockets |-> sockets, messageHistory |-> messageHistory,
   rateLimitMap |-> rateLimitMap]

LoadLimitsShared(stored, current) == current

\* private rateLimitMap: each instance has its own Map
LoadLimits(stored, current) == stored

\* the runtime runs the next handler in the instance called name: the fields
\* of the running instance stay behind, those of the other one are in effect
RunFacet(name) ==
  /\ name \in FacetNames \ {facet}
  /\ facet' = name
  /\ facets' = [facets EXCEPT ![facet] = FacetFields]
  /\ sockets' = facets[name].sockets
  /\ messageHistory' = facets[name].messageHistory
  /\ rateLimitMap' = LoadLimits(facets[name].rateLimitMap, rateLimitMap)
  /\ last' = [op |-> "run", ws |-> NoSocket, frame |-> <<name>>, raised |-> FALSE]
  /\ UNCHANGED <<tags, now, nextId, nextConn, sent, received, checks, failing,
                 response, roomVars, elsewhere>>

\* fetch(request, env, ctx) of the worker for an upgrade request to
\* /api/chat/...: env.FACET.get(env.FACET.idFromName(facetName)).fetch(request)
AppFetch(segments, rawUserId, rawUsername) ==
  /\ FacetName(segments) = facet
  /\ HandleWebSocket(rawUserId, rawUsername)

\* tokens the sender has used in the running instance
Used(userId) ==
  IF userId \in DOMAIN rateLimitMap
  THEN maxRequests - rateLimitMap[userId].tokens ELSE 0

\* one user sends a burst in the instance "a"; the instance "general" gets a
\* few frames of the same user before the burst or after it
NextFacets ==
  \/ \E segments \in ChatPaths :
       /\ nextConn <= FacetConns /\ TotalChecks = 0
       /\ AppFetch(segments, Sender.userId, Sender.username)
  \/ \E ws \in sockets :
       /\ TotalChecks < FacetBurst
       /\ facet = general =>
            LET here == Used(OrDefault(getTagValue(tags[ws], "userId"), anonymous))
            IN  /\ here < FacetQuiet
                /\ TotalChecks - here \in {0} \cup (maxRequests + 1)..FacetBurst
       /\ WebSocketMessage(ws, [kind |-> "message", message |-> Hello])
  \/ \E name \in FacetNames : RunFacet(name)

SpecFacets == Init /\ [][NextFacets]_vars

\* ----- a room in which sends to some connections fail ----------------------
NextFail ==
  \/ \E who \in Identities :
       /\ nextConn <= FailConns /\ Steps < FailSteps
       /\ HandleWebSocket(who.userId, who.username)
  \/ \E ws \in sockets :
       /\ TotalChecks < FailFrames /\ Steps < FailSteps
       /\ WebSocketMessage(ws, [kind |-> "message", message |-> Hello])
  \/ \E ws \in sockets, listed \in BOOLEAN :
       Steps < FailSteps /\ WebSocketClose(ws, listed)
  \/ \E ws \in sockets : SendFails(ws)

SpecFail == Init /\ [][NextFail]_vars

\* ======================= properties =======================================
SeqToSet(s) == {s[i] : i \in 1..Len(s)}
OfType(s, type) == SelectSeq(s, LAMBDA e : e.type = type)
After(s, id) == SelectSeq(s, LAMBDA e : e.id > id)
IsPrefix(a, b) == Len(a) <= Len(b) /\ a = SubSeq(b, 1, Len(a))

\* the identity attached at accept time: the values put into the tags
UserIdOf(ws) == SubSeq(tags[ws][1], 3, Len(tags[ws][1]))
UsernameOf(ws) == SubSeq(tags[ws][2], 3, Len(tags[ws][2]))
\* the key of the rate-limit entry the frames of ws are charged to
RateKey(ws) == OrDefault(getTagValue(tags[ws], "userId"), anonymous)

\* this step is webSocketMessage(last'.ws, last'.frame) past JSON.parse
MessageStep == last'.op = "message" /\ checks' # checks
ConnectStep == last'.op = "connect" /\ nextConn' # nextConn
CloseStep == last'.op = "close" /\ sockets' # sockets

\* the frame of this step passes the rate limit and the content checks
Passes ==
  /\ MessageStep /\ last'.frame.kind = "message"
  /\ checkRateLimit(rateLimitMap, RateKey(last'.ws), now).allowed
  /\ ~containsSuspiciousContent(last'.frame.message)
  /\ Trim(sanitizeChatMessage(last'.frame.message)) # <<>>

\* every socket of S is sent to exactly once by sends, and nobody else
OncePerSocket(sends, S) ==
  /\ Len(sends) = Cardinality(S)
  /\ \A c \in S : \E i \in 1..Len(sends) : sends[i].to = c

NothingEvicted == nextId - 1 <= maxHistorySize
\* the id of the join event of connection c of a room started empty: handles
\* are given out in the order of the join events
JoinId(c) == OfType(messageHistory, "join")[c].id

RateLimitNotice(sends, ws) ==
  /\ Len(sends) = 1 /\ sends[1].to = ws
  /\ sends[1].data.type = "rate_limit_exceeded"

\* C1: while nothing has been evicted, the message events a registered
\* connection has received are exactly the message events accepted since it
\* joined, in the order of acceptance (the order of the history); a closed
\* connection has received a prefix of them.  Hence no two connections see
\* two message events in opposite orders.
C1_OrderPreserved ==
  NothingEvicted =>
    \A c \in 1..(nextConn - 1) :
      LET got == OfType(received[c], "message")
          accepted == After(OfType(messageHistory, "message"), JoinId(c))
      IN  IF c \in sockets THEN got = accepted ELSE IsPrefix(got, accepted)

C1_Witness ==
  \E c \in sockets, d \in sockets :
    /\ c # d
    /\ Len(OfType(received[c], "message")) >= 2
    /\ OfType(received[c], "message") = OfType(received[d], "message")
    /\ OfType(received[c], "message")[1].userId
         # OfType(received[c], "message")[2].userId

\* C2: a message frame that passes the rate limit and the content checks is
\* sent exactly once to every registered connection, the sender included, as
\* one message event with the sender's userId and username and the sanitized
\* text, and that event is appended exactly once to the history.
C2_Step ==
  Passes =>
    LET ws == last'.ws
        text == sanitizeChatMessage(last'.frame.message)
    IN  /\ OncePerSocket(sent', sockets)
        /\ \A i \in 1..Len(sent') :
             /\ sent'[i].data = sent'[1].data
             /\ sent'[i].data.type = "message"
             /\ sent'[i].data.userId = UserIdOf(ws)
             /\ sent'[i].data.username = UsernameOf(ws)
             /\ sent'[i].data.message = text
        /\ messageHistory' = addToHistory(messageHistory, sent'[1].data)

C2_BroadcastOnce == [][C2_Step]_vars

\* C2 with the userId the tags give back (getTagValue) in place of the userId
\* attached at accept time
C2_StepTagUserId ==
  Passes =>
    LET ws == last'.ws
        text == sanitizeChatMessage(last'.frame.message)
    IN  /\ OncePerSocket(sent', sockets)
        /\ \A i \in 1..Len(sent') :
             /\ sent'[i].data = sent'[1].data
             /\ sent'[i].data.type = "message"
             /\ sent'[i].data.userId = RateKey(ws)
             /\ sent'[i].data.username = UsernameOf(ws)
             /\ sent'[i].data.message = text
        /\ messageHistory' = addToHistory(messageHistory, sent'[1].data)

C2_BroadcastOnceTagUserId == [][C2_StepTagUserId]_vars

\* C3: a message frame rejected by the rate limiter or as suspicious sends
\* nothing to any connection but the sender, leaves the history unchanged and
\* gives the sender exactly one notice: rate_limit_exceeded, respectively error.
C3_Step ==
  (MessageStep /\ last'.frame.kind = "message") =>
    LET ws == last'.ws
        allowed == checkRateLimit(rateLimitMap, RateKey(ws), now).allowed
        suspicious == containsSuspiciousContent(last'.frame.message)
    IN  (~allowed \/ suspicious) =>
          /\ Len(sent') = 1
          /\ sent'[1].to = ws
          /\ sent'[1].data.type = IF ~allowed THEN "rate_limit_exceeded" ELSE "error"
          /\ messageHistory' = messageHistory
          /\ received' = received

C3_RejectedStaysPrivate == [][C3_Step]_vars

C3_Witness ==
  /\ last.op = "message" /\ containsSuspiciousContent(last.frame.message)
  /\ RateLimitNotice(sent, last.ws)
  /\ Cardinality(sockets) = 2

\* C4 as stated: starting from no rate-limit state, whenever 31 frames of one
\* userId fall within one window of 60 s, the 31st is answered with
\* rate_limit_exceeded to the sender only and no message event is broadcast.
C4_AnyTiming ==
  \A ws \in sockets :
    (/\ last.op = "message" /\ last.ws = ws
     /\ RateKey(ws) \in DOMAIN checks
     /\ checks[RateKey(ws)].n = maxRequests + 1
     /\ now - checks[RateKey(ws)].first < windowMs)
    => RateLimitNotice(sent, ws)

\* C4 amended: starting from no rate-limit state, whenever 31 frames of one
\* userId all arrive less than windowMs / maxRequests (2000 ms) after the
\* first of them, the 31st is answered with rate_limit_exceeded to the sender
\* only and no message event is broadcast.
C4_RapidBurst ==
  \A ws \in sockets :
    (/\ last.op = "message" /\ last.ws = ws
     /\ RateKey(ws) \in DOMAIN checks
     /\ checks[RateKey(ws)].n = maxRequests + 1
     /\ (now - checks[RateKey(ws)].first) * maxRequests < windowMs)
    => RateLimitNotice(sent, ws)

C4_Witness ==
  \E ws \in sockets :
    /\ last.op = "message" /\ last.ws = ws /\ last.frame.message = Hello
    /\ RateKey(ws) \in DOMAIN checks
    /\ checks[RateKey(ws)].n = maxRequests + 1
    /\ now - checks[RateKey(ws)].first = 1000
    /\ RateLimitNotice(sent, ws)
    /\ Len(OfType(messageHistory, "message")) = maxRequests

Rapid(first, t) == (t - first) * maxRequests < windowMs
HandlerStep == MessageStep \/ ConnectStep \/ CloseStep
IsChatEvent(data) == data.type \in {"message", "join", "leave"}
EventOf(data) ==
  ChatMessage(data.id, data.userId, data.username, data.message, data.type)

\* C5: for a userId with no prior state, the first maxRequests checks made
\* in rapid succession (less than one refill increment after the first) are
\* allowed and the next such check is blocked, which begins a block of
\* blockDurationMs; every check before the end of the block is blocked and
\* does not move its end; the first check at or after the end is allowed.
C5_Step ==
  MessageStep =>
    LET ws == last'.ws
        k == RateKey(ws)
        blocked == RateLimitNotice(sent', ws)
        blockedBefore == k \in DOMAIN rateLimitMap /\ rateLimitMap[k].blockedUntil # 0
    IN  /\ (checks'[k].n <= maxRequests /\ Rapid(checks'[k].first, now)) => ~blocked
        /\ (checks'[k].n = maxRequests + 1 /\ Rapid(checks'[k].first, now)) =>
             /\ blocked
             /\ rateLimitMap'[k].blockedUntil = now + blockDurationMs
        /\ (blockedBefore /\ now < rateLimitMap[k].blockedUntil) =>
             /\ blocked
             /\ rateLimitMap'[k].blockedUntil = rateLimitMap[k].blockedUntil
        /\ (blockedBefore /\ now >= rateLimitMap[k].blockedUntil) =>
             /\ ~blocked
             /\ rateLimitMap'[k].blockedUntil = 0

C5_BurstThenBlock == [][C5_Step]_vars

C5_Witness ==
  \E ws \in sockets :
    /\ last.op = "message" /\ last.ws = ws
    /\ checks[RateKey(ws)].n = maxRequests + 3
    /\ checks[RateKey(ws)].first = 0
    /\ now = blockDurationMs
    /\ rateLimitMap[RateKey(ws)] =
         [tokens |-> maxRequests - 1, lastRefill |-> now, blockedUntil |-> 0]
    /\ Len(OfType(messageHistory, "message")) = maxRequests + 1
    /\ OncePerSocket(sent, sockets) /\ sent[1].data.type = "message"

\* C6: every step is one whole handler invocation: it charges only the
\* rate-limit entry of its own frame, and all it broadcasts and appends is
\* its own single event.  With no refill due, an allowed frame takes a token
\* that the next check no longer sees, so with one token left a frame takes
\* it and the next one is rejected; and in every state each connection has
\* received its events in the order of the history.
C6_Step ==
  /\ MessageStep =>
       LET ws == last'.ws
           k == RateKey(ws)
           blocked == RateLimitNotice(sent', ws)
           noRefill == /\ k \in DOMAIN rateLimitMap
                       /\ rateLimitMap[k].blockedUntil = 0
                       /\ TokensToAdd(now - rateLimitMap[k].lastRefill) = 0
       IN  /\ (noRefill /\ ~blocked) =>
                /\ rateLimitMap[k].tokens >= 1
                /\ rateLimitMap'[k].tokens = rateLimitMap[k].tokens - 1
           /\ (noRefill /\ rateLimitMap[k].tokens = 1) =>
                ~blocked /\ rateLimitMap'[k].tokens = 0
           /\ (noRefill /\ rateLimitMap[k].tokens = 0) =>
                blocked /\ messageHistory' = messageHistory
           /\ \A j \in DOMAIN rateLimitMap :
                j # k => rateLimitMap'[j] = rateLimitMap[j]
  /\ ~MessageStep => rateLimitMap' = rateLimitMap
  /\ nextId' \in {nextId, nextId + 1}
  /\ nextId' = nextId => messageHistory' = messageHistory
  /\ nextId' = nextId + 1 =>
       /\ messageHistory'[Len(messageHistory')].id = nextId
       /\ IsPrefix(SubSeq(messageHistory', 1, Len(messageHistory') - 1),
                   Append(messageHistory, messageHistory'[Len(messageHistory')]))
          \/ Len(messageHistory) = maxHistorySize
  /\ HandlerStep =>
       \A i \in 1..Len(sent') :
         IsChatEvent(sent'[i].data) =>
           /\ nextId' = nextId + 1
           /\ EventOf(sent'[i].data) = messageHistory'[Len(messageHistory')]

C6_SameOrder ==
  \A c \in Conns :
    \A i \in 1..Len(received[c]) :
      /\ i > 1 => received[c][i - 1].id < received[c][i].id
      /\ received[c][i].id > nextId - 1 - Len(messageHistory) =>
           \E j \in 1..Len(messageHistory) : messageHistory[j] = received[c][i]

C6_Serialized == [][C6_Step]_vars /\ []C6_SameOrder

C6_Witness ==
  \E ws \in sockets :
    /\ last.op = "message" /\ last.ws = ws /\ last.frame.message = Hello
    /\ RateLimitNotice(sent, ws)
    /\ checks[RateKey(ws)].n = maxRequests + 1
    /\ now = checks[RateKey(ws)].first
    /\ rateLimitMap[RateKey(ws)].tokens = 0
    /\ Len(OfType(received[ws], "message")) = maxRequests
    /\ Cardinality(sockets) = 2

\* C7: the history is never longer than its capacity and always consists of
\* the most recent min(capacity, k) of the k events appended so far, in the
\* order they were appended (event ids count the appends).
C7_Ring ==
  /\ Len(messageHistory) <= maxHistorySize
  /\ Len(messageHistory) = Min(maxHistorySize, nextId - 1)
  /\ \A i \in 1..Len(messageHistory) :
       messageHistory[i].id = nextId - 1 - Len(messageHistory) + i

C7_Witness ==
  /\ Len(messageHistory) = maxHistorySize
  /\ messageHistory[1].id = 3
  /\ messageHistory[maxHistorySize].type = "message"

UsernamesIn(tg, S) == {SubSeq(tg[c][2], 3, Len(tg[c][2])) : c \in S}

\* C8: an upgrade sends the new connection the system welcome with the
\* usernames then online, next, if and only if the history is not empty, one
\* history payload, and only then the join event, once to each other
\* registered connection, with the same usernames; the new connection is
\* never sent its own join event.
C8_Step ==
  ConnectStep =>
    LET server == last'.ws
        online == UsernamesIn(tags', sockets')
        k == IF Len(messageHistory) > 0 THEN 2 ELSE 1
        joins == SubSeq(sent', k + 1, Len(sent'))
    IN  /\ sockets' = sockets \cup {server} /\ server \notin sockets
        /\ Len(sent') >= k
        /\ sent'[1].to = server /\ sent'[1].data.type = "system"
        /\ SeqToSet(sent'[1].data.onlineUsers) = online
        /\ k = 2 => sent'[2].to = server /\ sent'[2].data.type = "history"
        /\ OncePerSocket(joins, sockets)
        /\ \A i \in 1..Len(joins) :
             /\ joins[i].data.type = "join"
             /\ joins[i].data.id = nextId
             /\ SeqToSet(joins[i].data.onlineUsers) = online
        /\ received'[server] = <<>>

C8_NoOwnJoin ==
  NothingEvicted =>
    \A c \in 1..(nextConn - 1) :
      \A i \in 1..Len(received[c]) : received[c][i].id # JoinId(c)

C8_ConnectSequence == [][C8_Step]_vars /\ []C8_NoOwnJoin

C8_Witness ==
  /\ last.op = "connect"
  /\ Len(sent) = 4
  /\ sent[2].data.type = "history"
  /\ sent[3].data.type = "join" /\ sent[4].data.type = "join"
  /\ Len(sent[1].data.onlineUsers) = 2

\* C9: the history payload of an upgrade is exactly the last min(20, len)
\* entries of the history as it stood before the upgrade, in order, and does
\* not contain the join event of the new connection.
C9_Step ==
  (ConnectStep /\ Len(messageHistory) > 0) =>
    LET n == Min(HistorySlice, Len(messageHistory))
        payloads == {i \in 1..Len(sent') : sent'[i].data.type = "history"}
        ownJoin == messageHistory'[Len(messageHistory')]
    IN  /\ Cardinality(payloads) = 1
        /\ ownJoin.type = "join" /\ ownJoin.id = nextId
        /\ \A i \in payloads :
             /\ sent'[i].to = last'.ws
             /\ sent'[i].data.messages =
                  SubSeq(messageHistory, Len(messageHistory) - n + 1,
                         Len(messageHistory))
             /\ \A j \in 1..Len(sent'[i].data.messages) :
                  sent'[i].data.messages[j] # ownJoin

C9_ReplayLastTwenty == [][C9_Step]_vars

C9_Witness ==
  /\ last.op = "connect"
  /\ Len(messageHistory) = 96
  /\ sent[2].data.type = "history"
  /\ Len(sent[2].data.messages) = HistorySlice
  /\ sent[2].data.messages[1].id = 76
  /\ sent[2].data.messages[HistorySlice].id = 95

\* C10: a close of connection A sends a leave event with A's userId and
\* username once to every remaining registered connection and not to A, and
\* the onlineUsers of that event do not contain A's username unless another
\* connection that is still registered has the same username.
C10_Step ==
  CloseStep =>
    LET A == last'.ws
        remaining == sockets \ {A}
    IN  /\ sockets' = remaining
        /\ OncePerSocket(sent', remaining)
        /\ \A i \in 1..Len(sent') :
             /\ sent'[i].data.type = "leave"
             /\ sent'[i].data.userId = UserIdOf(A)
             /\ sent'[i].data.username = UsernameOf(A)
             /\ UsernameOf(A) \in SeqToSet(sent'[i].data.onlineUsers) =>
                  \E c \in remaining : UsernameOf(c) = UsernameOf(A)

C10_LeaveBroadcast == [][C10_Step]_vars

\* the onlineUsers part of C10 alone
C10_StepOnlineUsers ==
  CloseStep =>
    \A i \in 1..Len(sent') :
      UsernameOf(last'.ws) \in SeqToSet(sent'[i].data.onlineUsers) =>
        \E c \in sockets \ {last'.ws} : UsernameOf(c) = UsernameOf(last'.ws)

C10_LeaveOnlineUsers == [][C10_StepOnlineUsers]_vars

\* C10 apart from the onlineUsers and with the userId the tags give back
C10_StepDelivery ==
  CloseStep =>
    LET A == last'.ws
        remaining == sockets \ {A}
    IN  /\ sockets' = remaining
        /\ OncePerSocket(sent', remaining)
        /\ \A i \in 1..Len(sent') :
             /\ sent'[i].data.type = "leave"
             /\ sent'[i].data.userId = RateKey(A)
             /\ sent'[i].data.username = UsernameOf(A)

C10_LeaveDelivery == [][C10_StepDelivery]_vars

\* ---------------------------------------------------------------------------
NoDuplicates(s) == \A i, j \in 1..Len(s) : s[i] = s[j] => i = j
HasOnlineUsers(data) == "onlineUsers" \in DOMAIN data

\* C11: every onlineUsers list the room sends has no duplicate and is, as a
\* set, the usernames of the connections registered at that moment (after an
\* upgrade: the new connection included; in a close: the connections the
\* runtime lists, with or without the closing one); when one of two
\* connections with the same username closes, the username stays in the list.
C11_Step ==
  HandlerStep =>
    \A i \in 1..Len(sent') :
      HasOnlineUsers(sent'[i].data) =>
        LET list == sent'[i].data.onlineUsers
        IN  /\ NoDuplicates(list)
            /\ \/ SeqToSet(list) = UsernamesIn(tags', sockets')
               \/ CloseStep /\ SeqToSet(list) = UsernamesIn(tags, sockets)
            /\ CloseStep =>
                 \A c \in sockets' :
                   UsernameOf(c) = UsernameOf(last'.ws) =>
                     UsernameOf(c) \in SeqToSet(list)

C11_OnlineUsersDistinct == [][C11_Step]_vars

C11_Witness ==
  /\ last.op = "close"
  /\ Cardinality(sockets) = 2
  /\ \E c \in sockets : UsernameOf(c) = UsernameOf(last.ws)
  /\ \E c \in sockets : UsernameOf(c) # UsernameOf(last.ws)
  /\ Len(sent) = 2
  /\ Len(sent[1].data.onlineUsers) = 2

\* ---------------------------------------------------------------------------
\* this step is webSocketMessage(last'.ws, last'.frame)
FrameStep == last'.op = "message" /\ now' = now /\ failing' = failing
ErrorNotice(sends, ws) ==
  /\ Len(sends) = 1 /\ sends[1].to = ws /\ sends[1].data.type = "error"
AllowedNow(ws) == checkRateLimit(rateLimitMap, RateKey(ws), now).allowed

\* C12: an inbound ping frame results in exactly one pong frame to the sender
\* and nothing else: no frame to another connection, no change of the history
\* and no change of the rate-limit state.
C12_Step ==
  (FrameStep /\ last'.frame.kind = "ping") =>
    /\ sent' = sendToSocket(last'.ws, [type |-> "pong"])
    /\ messageHistory' = messageHistory
    /\ rateLimitMap' = rateLimitMap

C12_PingOnlyPong == [][C12_Step]_vars

\* C12 without the rate limiter: a ping that the rate limit allows is answered
\* with one pong to the sender, nothing else is sent, the history is unchanged
C12_StepAllowed ==
  (FrameStep /\ last'.frame.kind = "ping" /\ AllowedNow(last'.ws)) =>
    /\ sent' = sendToSocket(last'.ws, [type |-> "pong"])
    /\ messageHistory' = messageHistory
    /\ received' = received

C12_PongWhenAllowed == [][C12_StepAllowed]_vars

\* not valid JSON, or valid JSON without the required fields
Malformed(frame) ==
  \/ frame.kind \in {"invalid", "null", "nonobject"}
  \/ frame.kind = "message" /\ frame.message = NoMessage

\* C13: a frame that is not valid JSON, or is valid JSON without the required
\* fields, results in exactly one error notice to its connection, no frame to
\* any other connection and no change of the history, the registry or any
\* rate-limit state.
C13_Step ==
  (FrameStep /\ Malformed(last'.frame)) =>
    /\ ErrorNotice(sent', last'.ws)
    /\ messageHistory' = messageHistory
    /\ sockets' = sockets /\ tags' = tags
    /\ rateLimitMap' = rateLimitMap

C13_MalformedOnlyError == [][C13_Step]_vars

\* C13 for the frames that are not JSON at all
C13_StepNotJson ==
  (FrameStep /\ last'.frame.kind = "invalid") =>
    /\ ErrorNotice(sent', last'.ws)
    /\ messageHistory' = messageHistory
    /\ sockets' = sockets /\ tags' = tags
    /\ rateLimitMap' = rateLimitMap

C13_NotJsonOnlyError == [][C13_StepNotJson]_vars

\* ---------------------------------------------------------------------------
\* the connections a broadcast of this step is meant for
Recipients ==
  IF CloseStep THEN sockets \ {last'.ws} ELSE sockets

\* C14: when sends to some recipients fail during a broadcast (of a message,
\* join or leave event), every recipient is still sent the event, those whose
\* send works receive it, the event is appended to the history and no error
\* leaves the handler.
C14_Step ==
  (HandlerStep /\ nextId' = nextId + 1) =>
    LET event == messageHistory'[Len(messageHistory')]
    IN  /\ Len(messageHistory') > 0 /\ event.id = nextId
        /\ last'.raised = FALSE
        /\ \A c \in Recipients :
             /\ \E i \in 1..Len(sent') :
                  /\ sent'[i].to = c /\ IsChatEvent(sent'[i].data)
                  /\ EventOf(sent'[i].data) = event
             /\ c \notin failing => received'[c] = Append(received[c], event)
             /\ c \in failing => received'[c] = received[c]

C14_FailureIsolated == [][C14_Step]_vars

C14_Witness ==
  /\ last.op = "message" /\ last.raised = FALSE
  /\ sockets = {1, 2} /\ failing = {1}
  /\ Len(sent) = 2 /\ sent[1].to = 1 /\ sent[2].to = 2
  /\ Len(messageHistory) = 3 /\ messageHistory[3].type = "message"
  /\ received[1] # <<>> /\ received[1][Len(received[1])].type = "join"
  /\ received[2] = <<messageHistory[3]>>

\* ---------------------------------------------------------------------------
\* properties of the ChatRoom class
Accepted == 1..(nextConn - 1)
Leaves(history) == OfType(history, "leave")
\* this step is one of the listeners of the ChatRoom
RoomStep == failing' = failing /\ last'.op \in {"message", "close", "error"}
DisconnectStep == failing' \subseteq failing /\ last'.op \in {"close", "error"}

\* this step is fetch(request) for /info, /history or another path
QueryStep == last'.op = "fetch" /\ now' = now /\ failing' = failing

\* C18: the info and history queries change nothing (history, registry,
\* rate-limit state) and send no frame to any connection; info reports
\* activeConnections equal to the number of registered connections and
\* messageCount equal to the history length, and history reports count equal
\* to the number of messages it returns.
C18_Step ==
  QueryStep =>
    /\ sent' = <<>> /\ received' = received
    /\ messageHistory' = messageHistory /\ nextId' = nextId
    /\ sockets' = sockets /\ tags' = tags
    /\ rateLimitMap' = rateLimitMap
    /\ (last'.frame = <<"/info">> =>
          /\ response'.status = 200
          /\ response'.body.activeConnections = Cardinality(sockets)
          /\ response'.body.messageCount = Len(messageHistory))
    /\ (last'.frame = <<"/history">> =>
          /\ response'.status = 200
          /\ response'.body.messages = messageHistory
          /\ response'.body.count = Len(response'.body.messages))

C18_QueriesReadOnly == [][C18_Step]_vars

\* /info was asked while two connections share one username and the history
\* holds their two join events
C18_Witness ==
  /\ last.op = "fetch" /\ last.frame = <<"/info">>
  /\ Cardinality(sockets) = 2
  /\ Len(getOnlineUsers(sockets, tags)) = 1
  /\ response.body.activeConnections = 2
  /\ response.body.messageCount = 2 /\ Len(messageHistory) = 2
  /\ rateLimitMap # NoLimits

\* C19: an inbound frame whose type is neither message nor ping is ignored:
\* no frame is sent to any connection, and the history, the registry and
\* every rate-limit state are unchanged.
C19_Step ==
  (FrameStep /\ last'.frame.kind = "other") =>
    /\ sent' = <<>>
    /\ messageHistory' = messageHistory
    /\ sockets' = sockets /\ tags' = tags
    /\ rateLimitMap' = rateLimitMap

C19_UnknownIgnored == [][C19_Step]_vars

\* C19 without the rate limiter: an unknown type that the rate limit allows
\* sends nothing and leaves the history and the registry as they were
C19_StepAllowed ==
  (FrameStep /\ last'.frame.kind = "other" /\ AllowedNow(last'.ws)) =>
    /\ sent' = <<>> /\ received' = received
    /\ messageHistory' = messageHistory /\ nextId' = nextId
    /\ sockets' = sockets /\ tags' = tags

C19_IgnoredWhenAllowed == [][C19_StepAllowed]_vars

\* a message frame whose sanitized text is empty or whitespace-only
SanitizedBlank(frame) ==
  /\ frame.kind = "message"
  /\ Trim(sanitizeChatMessage(frame.message)) = <<>>

NoBlankMessage ==
  \A i \in 1..Len(messageHistory) :
    messageHistory[i].type = "message" => Trim(messageHistory[i].message) # <<>>

\* C20 as stated: a message frame whose sanitized text is empty or
\* whitespace-only produces no outbound frame at all and no history append,
\* and no message event with blank text is ever in the history.
C20_StepAny ==
  (FrameStep /\ SanitizedBlank(last'.frame)) =>
    /\ sent' = <<>>
    /\ messageHistory' = messageHistory

C20_BlankAlwaysSilent == [][C20_StepAny]_vars /\ []NoBlankMessage

\* C20: a message frame that the rate limit allows, whose raw text is not
\* flagged as suspicious and whose sanitized text is empty or whitespace-only
\* produces no outbound frame at all and no history append; no message event
\* with blank text is ever in the history.
C20_Step ==
  (/\ FrameStep /\ SanitizedBlank(last'.frame)
   /\ AllowedNow(last'.ws)
   /\ ~containsSuspiciousContent(last'.frame.message)) =>
    /\ sent' = <<>> /\ received' = received
    /\ messageHistory' = messageHistory /\ nextId' = nextId

C20_BlankSilent == [][C20_Step]_vars /\ []NoBlankMessage

\* two tags around a blank were sanitized to the blank and dropped silently
C20_Witness ==
  /\ last.op = "message" /\ last.frame.kind = "message"
  /\ last.frame.message = <<"T", "_", "T">>
  /\ sanitizeChatMessage(last.frame.message) = <<"_">>
  /\ sent = <<>>
  /\ RateKey(last.ws) \in DOMAIN rateLimitMap
  /\ rateLimitMap[RateKey(last.ws)].tokens = maxRequests - 1
  /\ OfType(messageHistory, "message") = <<>>

\* C14 in the ChatRoom class: a broadcast whose send to one session throws
\* still reaches every other open session, appends its event and raises
\* nothing
C14_RoomStep ==
  (messageHistory' # messageHistory) =>
    LET event == messageHistory'[Len(messageHistory')]
    IN  /\ last'.raised = FALSE
        /\ \A d \in (DOMAIN sessions \cap open) \ failing :
             (last'.op = "message" \/ d # last'.ws) =>
               received'[d] = Append(received[d], event)

C14_RoomFailureIsolated == [][C14_RoomStep]_vars

C14_RoomWitness ==
  /\ failing # {} /\ DOMAIN sessions = {2} /\ open = {1, 2}
  /\ last.op = "message" /\ last.ws = 2
  /\ Len(received[2]) = 1 /\ received[2][1].type = "message"

\* C15: a connection whose send fails during a broadcast is unregistered, and
\* its removal broadcasts a leave event: whenever a connection leaves the
\* registry, that step is its close handling, which sends a leave event with
\* its identity to the remaining connections and appends it to the history.
C15_Step ==
  \A c \in DOMAIN sessions \ DOMAIN sessions' :
    /\ DisconnectStep /\ last'.ws = c
    /\ nextId' = nextId + 1
    /\ LET leave == messageHistory'[Len(messageHistory')]
       IN  /\ leave = ChatMessage(nextId, sessions[c].userId, sessions[c].username,
                                  sessions[c].username \o <<"left">>, "leave")
           /\ \A d \in DOMAIN sessions \ {c} :
                \E i \in 1..Len(sent') : sent'[i] = [to |-> d, data |-> leave]

C15_RemovalBroadcastsLeave == [][C15_Step]_vars

\* the leave of C15 never comes later either: a connection that was dropped
\* for a failed send has been closed and no leave event exists
C15_NoLeaveEver ==
  /\ nextConn = 3 /\ DOMAIN sessions = {1} /\ open = {1}
  /\ last.op = "close" /\ last.ws = 2
  /\ Leaves(messageHistory) = <<>> /\ NothingEvicted

\* C16: a frame that arrives from a connection after its close was handled
\* is discarded: nothing is sent, nothing is appended to the history and no
\* state of the room changes.
C16_Step ==
  (RoomStep /\ last'.op = "message" /\ last'.ws \notin open) =>
    /\ sent' = <<>>
    /\ messageHistory' = messageHistory /\ nextId' = nextId
    /\ sessions' = sessions /\ open' = open
    /\ received' = received
    /\ rateLimitMap' = rateLimitMap

C16_LateFrameDiscarded == [][C16_Step]_vars

C16_Witness ==
  /\ last.op = "message" /\ last.frame.kind = "message"
  /\ last.ws \in Accepted \ open
  /\ DOMAIN sessions # {}
  /\ sent = <<>>
  /\ Len(Leaves(messageHistory)) = 1
  /\ messageHistory[Len(messageHistory)].type = "leave"

\* C17: close handling is idempotent per connection: whatever close and
\* error notifications arrive for a connection, and however often, exactly
\* one leave event for it is broadcast and appended once one has arrived.
\* (a connection outside open has had its close reported; one outside the
\* registry has had at most its one leave)
C17_ExactlyOneLeave ==
  NothingEvicted =>
    /\ Cardinality(Accepted \ open) <= Len(Leaves(messageHistory))
    /\ Len(Leaves(messageHistory)) <= Cardinality(Accepted \ DOMAIN sessions)

\* C17 without the connections dropped for a failed send: a notification for
\* a connection that is not registered changes nothing and sends nothing, so
\* no connection ever has more than one leave event
C17_StepLater ==
  (DisconnectStep /\ last'.ws \notin DOMAIN sessions) =>
    /\ sent' = <<>> /\ last'.raised = FALSE
    /\ messageHistory' = messageHistory /\ nextId' = nextId
    /\ sessions' = sessions /\ received' = received

C17_LaterNotificationsIdle ==
  /\ [][C17_StepLater]_vars
  /\ [](NothingEvicted =>
          Len(Leaves(messageHistory)) <= Cardinality(Accepted \ DOMAIN sessions))

\* ---------------------------------------------------------------------------
\* the server-built notice of a join or leave event
Notice(event) ==
  event.username \o (IF event.type = "join" THEN <<"joined">> ELSE <<"left">>)

\* the text went through the sanitizer: nothing is left for it to remove
Sanitized(text) == purifySanitize(text) = text

\* the event this step appended to the history
Appended == messageHistory'[Len(messageHistory')]

\* C21: every message event that is broadcast or stored in the history carries
\* sanitize(raw input), never the raw client input, and every join or leave
\* event carries the notice built by the server.
C21_Step ==
  (nextId' # nextId /\ last'.op = "message") =>
    /\ Appended.type = "message"
    /\ Appended.message = sanitizeChatMessage(last'.frame.message)
    /\ \A i \in 1..Len(sent') : sent'[i].data = Appended

C21_Stored ==
  \A i \in 1..Len(messageHistory) :
    /\ messageHistory[i].type = "message" => Sanitized(messageHistory[i].message)
    /\ messageHistory[i].type \in {"join", "leave"} =>
         messageHistory[i].message = Notice(messageHistory[i])

C21_SanitizedText == [][C21_Step]_vars /\ []C21_Stored

\* a text with a disallowed tag was broadcast and stored without the tag
C21_FacetWitness ==
  /\ last.op = "message" /\ last.frame.message = <<"T", "_", "h">>
  /\ Len(sent) = 2
  /\ messageHistory[Len(messageHistory)].type = "message"
  /\ messageHistory[Len(messageHistory)].message = <<"_", "h">>

\* ---------------------------------------------------------------------------
\* C22: the history that is replayed to new connections and returned by the
\* history query contains only events of kind message or system: join and
\* leave events are broadcast live and never stored in it.
C22_OnlyMessagesStored ==
  \A i \in 1..Len(messageHistory) :
    messageHistory[i].type \in {"message", "system"}

\* the stored join and leave events are also what /history returns and what
\* the next connection is replayed
C22_JoinReplayed ==
  /\ last.op = "connect" /\ last.ws = 2
  /\ Len(sent) >= 2 /\ sent[2].to = 2 /\ sent[2].data.type = "history"
  /\ \E i \in 1..Len(sent[2].data.messages) :
       sent[2].data.messages[i].type = "join"

\* ---------------------------------------------------------------------------
\* the history, registry and rate-limit table of the instance called name,
\* now and after the step
FacetState(name) == IF name = facet THEN FacetFields ELSE facets[name]
FacetStateNext(name) ==
  IF name = facet'
  THEN [sockets |-> sockets', messageHistory |-> messageHistory',
        rateLimitMap |-> rateLimitMap']
  ELSE facets'[name]

\* C23: two rooms share no mutable state: an event handled in one room
\* (connect, message, rate-limit block) leaves the history, the registry and
\* the rate-limit table of every other room unchanged, so a userId blocked in
\* one room is not thereby blocked in another.
C23_Step ==
  \A name \in FacetNames :
    (name # facet \/ facet' # facet) => FacetStateNext(name) = FacetState(name)

C24_Step ==
  (last'.op = "connect" /\ last'.ws \in DOMAIN sessions /\ nextId' # nextId) =>
    /\ last'.raised
    /\ sessions' = sessions

C24_Overwritten ==
  /\ last.op = "connect" /\ last.ws = 1 /\ nextConn = 2
  /\ ~last.raised
  /\ Len(OfType(messageHistory, "join")) = 2
  /\ messageHistory[1].userId # messageHistory[2].userId
  /\ sessions[1].userId = messageHistory[2].userId

\* ---------------------------------------------------------------------------
\* properties of checkRateLimit
\* the entry the frame of this step is charged to, before and after the step
Charged == RateKey(last'.ws)
Before == rateLimitMap[Charged]
Later == rateLimitMap'[Charged]
\* the check of this step finds an entry whose block is not over
FindsBlocked ==
  /\ MessageStep /\ Charged \in DOMAIN rateLimitMap
  /\ Before.blockedUntil # 0 /\ now < Before.blockedUntil

\* C25: a check for a userId whose blockedUntil is in the future returns
\* Blocked with that same blockedUntil and leaves tokens, lastRefill and
\* blockedUntil of that userId unchanged: attempts during the block never
\* extend it.
C25_Step ==
  FindsBlocked =>
    /\ rateLimitMap' = rateLimitMap
    /\ RateLimitNotice(sent', last'.ws)
    /\ sent'[1].data.blockedUntil = Before.blockedUntil

C25_BlockedUntouched == [][C25_Step]_vars

\* an attempt made 1500 ms into the block was refused and the block still
\* ends when it was going to
C25_Witness ==
  /\ last.op = "message" /\ RateLimitNotice(sent, last.ws)
  /\ RateKey(last.ws) \in DOMAIN rateLimitMap
  /\ rateLimitMap[RateKey(last.ws)].blockedUntil = blockDurationMs + 1500
  /\ now = 3000
  /\ sent[1].data.blockedUntil = blockDurationMs + 1500

\* ---------------------------------------------------------------------------
\* C26: in every reachable state the token count of each userId is an integer
\* between 0 and maxRequests, whatever the checks and their times.
C26_TokensInRange ==
  \A userId \in DOMAIN rateLimitMap :
    rateLimitMap[userId].tokens \in 0..maxRequests

\* the second check of a user came after a pause as long as the window:
\* 29 tokens left and 30 to add, capped to 30 before the check took one
C26_Witness ==
  /\ last.op = "message" /\ now = blockDurationMs + 1500
  /\ RateKey(last.ws) \in DOMAIN checks /\ checks[RateKey(last.ws)].n = 2
  /\ checks[RateKey(last.ws)].first = 0
  /\ rateLimitMap[RateKey(last.ws)].tokens = maxRequests - 1
  /\ rateLimitMap[RateKey(last.ws)].lastRefill = now

\* ---------------------------------------------------------------------------
\* windowMs / maxRequests: the time that buys one token
Increment == windowMs \div maxRequests
\* the check of this step is neither the first of its userId nor concerned
\* with a block
FindsOpen ==
  /\ MessageStep /\ Charged \in DOMAIN rateLimitMap
  /\ Before.blockedUntil = 0
\* whole increments elapsed since lastRefill
Elapsed == TokensToAdd(now - Before.lastRefill)
Topped == Min(maxRequests, Before.tokens + Elapsed)

\* C27: on a check that is neither the first for the userId nor blocked,
\* k = floor((now - lastRefill) / (windowMs / maxRequests)) tokens are added,
\* capped at maxRequests, and lastRefill advances by exactly k increments;
\* when k = 0 lastRefill is unchanged, so that elapsed time shorter than one
\* increment is never lost.
C27_Step ==
  FindsOpen =>
    /\ Later.tokens = IF Topped > 0 THEN Topped - 1 ELSE 0
    /\ Later.lastRefill = Before.lastRefill + Elapsed * Increment

C27_RefillExact == [][C27_Step]_vars

\* C27 as the code has it: the tokens are added as stated, lastRefill is
\* unchanged when no token is added and becomes the time of the check
\* otherwise
C27_StepNow ==
  FindsOpen =>
    /\ Later.tokens = IF Topped > 0 THEN Topped - 1 ELSE 0
    /\ Later.lastRefill = IF Elapsed = 0 THEN Before.lastRefill ELSE now

C27_RefillToNow == [][C27_StepNow]_vars

\* checks at 0 and 3000 ms: one token added, and the 1000 ms beyond the
\* increment are gone
C27_RemainderLost ==
  /\ last.op = "message" /\ now = 3000
  /\ checks[RateKey(last.ws)].n = 2 /\ checks[RateKey(last.ws)].first = 0
  /\ rateLimitMap[RateKey(last.ws)].tokens = maxRequests - 1
  /\ rateLimitMap[RateKey(last.ws)].lastRefill = 3000

\* ---------------------------------------------------------------------------
\* the check of this step finds an entry whose block is over
FindsExpired ==
  /\ MessageStep /\ Charged \in DOMAIN rateLimitMap
  /\ Before.blockedUntil # 0 /\ now >= Before.blockedUntil

\* C28: the first check at or after blockedUntil clears blockedUntil, resets
\* the tokens to maxRequests and is allowed, which leaves maxRequests - 1
\* tokens; no block ends later than blockDurationMs after the present, so a
\* blocked user who keeps sending is allowed again once blockDurationMs has
\* passed since the block began.
C28_Step ==
  FindsExpired =>
    /\ Later = [tokens |-> maxRequests - 1, lastRefill |-> now, blockedUntil |-> 0]
    /\ sent' = sendToSocket(last'.ws, [type |-> "pong"])

C28_BlocksEnd ==
  \A userId \in DOMAIN rateLimitMap :
    rateLimitMap[userId].blockedUntil <= now + blockDurationMs

C28_AllowedAfterBlock == [][C28_Step]_vars /\ []C28_BlocksEnd

\* the block that began at 0 ended at 60000, and the ping that arrived at
\* exactly 60000 was answered
C28_Witness ==
  /\ last.op = "message" /\ now = blockDurationMs
  /\ sent = sendToSocket(last.ws, [type |-> "pong"])
  /\ checks[RateKey(last.ws)].n >= maxRequests + 2
  /\ rateLimitMap[RateKey(last.ws)] =
       [tokens |-> maxRequests - 1, lastRefill |-> now, blockedUntil |-> 0]

\* ---------------------------------------------------------------------------
\* the rate-limit state the frames of connection c are charged to: none yet,
\* or the entry
StateOf(m, c) == IF RateKey(c) \in DOMAIN m THEN <<m[RateKey(c)]>> ELSE <<>>

\* C29: rate-limit state is keyed by userId only: a check for one userId
\* never changes the state of another userId, and all connections that carry
\* the same userId draw from one bucket.
C29_Step ==
  MessageStep =>
    \A c \in sockets :
      /\ UserIdOf(c) # UserIdOf(last'.ws) =>
           StateOf(rateLimitMap', c) = StateOf(rateLimitMap, c)
      /\ UserIdOf(c) = UserIdOf(last'.ws) =>
           StateOf(rateLimitMap', c) = StateOf(rateLimitMap', last'.ws)

C29_KeyedByUserId == [][C29_Step]_vars

\* C29 with the key the code uses: a check changes the entry of the key of
\* its connection and no other, and connections with the same userId have
\* the same key
C29_StepKey ==
  MessageStep =>
    /\ \A k \in DOMAIN rateLimitMap \ {Charged} :
         k \in DOMAIN rateLimitMap' /\ rateLimitMap'[k] = rateLimitMap[k]
    /\ DOMAIN rateLimitMap' = DOMAIN rateLimitMap \cup {Charged}
    /\ \A c \in sockets :
         UserIdOf(c) = UserIdOf(last'.ws) => RateKey(c) = Charged

C29_KeyedByTagValue == [][C29_StepKey]_vars

\* the frame of u1:x took a token from the bucket of u1:y
C29_Collision ==
  /\ Cardinality(sockets) = 2 /\ last.op = "message" /\ last.ws = 1
  /\ UserIdOf(1) = <<"u1", ":", "x">> /\ UserIdOf(2) = <<"u1", ":", "y">>
  /\ checks[<<"u1">>].n = 2
  /\ DOMAIN rateLimitMap = {<<"u1">>}
  /\ rateLimitMap[<<"u1">>].tokens = maxRequests - 2

\* ---------------------------------------------------------------------------
\* C30: every rate_limit_exceeded notice carries blockedUntil equal to the
\* stored end of the block and remainingTime = ceil((blockedUntil - now) /
\* 1000), which is between 1 and blockDurationMs / 1000 seconds.
C30_Step ==
  MessageStep =>
    \A i \in 1..Len(sent') :
      sent'[i].data.type = "rate_limit_exceeded" =>
        LET notice == sent'[i].data IN
        /\ notice.blockedUntil = Later.blockedUntil
        /\ (notice.remainingTime - 1) * 1000 < notice.blockedUntil - now
        /\ notice.blockedUntil - now <= notice.remainingTime * 1000
        /\ notice.remainingTime \in 1..(blockDurationMs \div 1000)

C30_NoticeRemainingTime == [][C30_Step]_vars

\* 58500 ms of the block are left and the notice says 59 seconds
C30_Witness ==
  /\ last.op = "message" /\ RateLimitNotice(sent, last.ws)
  /\ sent[1].data.blockedUntil - now = 58500
  /\ sent[1].data.remainingTime = 59
  /\ rateLimitMap[RateKey(last.ws)].blockedUntil = sent[1].data.blockedUntil

\* ---------------------------------------------------------------------------
\* this step is webSocketError(last'.ws, ...)
ErrorStep == last'.op = "error" /\ last'.ws \in sockets /\ now' = now

\* C31: when the transport reports an error for an active connection, the
\* room broadcasts a leave event for it to the remaining connections and
\* unregisters it.
C31_Step ==
  ErrorStep =>
    /\ last'.ws \notin sockets'
    /\ nextId' = nextId + 1
    /\ Appended = ChatMessage(nextId, RateKey(last'.ws), UsernameOf(last'.ws),
                              UsernameOf(last'.ws) \o <<"left">>, "leave")
    /\ \A c \in sockets \ {last'.ws} :
         \E i \in 1..Len(sent') : sent'[i].to = c /\ sent'[i].data.type = "leave"

C31_ErrorLeaves == [][C31_Step]_vars

\* after an error the runtime dropped connection 1: connection 2 was told
\* nothing and the history has no leave event
C31_GoneSilently ==
  /\ last.op = "error" /\ last.ws = 1 /\ sockets = {2}
  /\ sent = <<>> /\ OfType(messageHistory, "leave") = <<>>
  /\ OfType(received[2], "leave") = <<>>

\* ---------------------------------------------------------------------------
\* the join event of connection c of a room started empty, while nothing
\* has been evicted
JoinOf(c) == OfType(messageHistory, "join")[c]

\* C32: the identity attached to a connection at accept time never changes:
\* the userId and username on every message and leave event emitted for a
\* connection, and the userId its rate-limit checks are charged to, equal
\* the userId and username of the connection's join event, for every
\* accepted userId and username (those containing ':' included).
C32_Step ==
  /\ MessageStep => RateKey(last'.ws) = JoinOf(last'.ws).userId
  /\ MessageStep \/ CloseStep =>
       \A i \in 1..Len(sent') :
         sent'[i].data.type \in {"message", "leave"} =>
           /\ sent'[i].data.userId = JoinOf(last'.ws).userId
           /\ sent'[i].data.username = JoinOf(last'.ws).username

C32_IdentityKept == [][C32_Step]_vars

\* connection 1 joined as u1:x and its message event says u1
C32_UserIdCut ==
  /\ last.op = "message" /\ last.ws = 1
  /\ JoinOf(1).userId = <<"u1", ":", "x">>
  /\ Len(sent) >= 1 /\ sent[1].data.type = "message"
  /\ sent[1].data.userId = <<"u1">>
  /\ sent[1].data.username = JoinOf(1).username

\* connection 1 joined as u1:x and its leave event says u1
C32_LeaveCut ==
  /\ last.op = "close" /\ last.ws = 1 /\ 2 \in sockets
  /\ JoinOf(1).userId = <<"u1", ":", "x">>
  /\ Len(sent) >= 1 /\ sent[1].data.type = "leave"
  /\ sent[1].data.userId = <<"u1">>

\* C32 for the username and for the userId up to its first colon: the
\* username of the join event has passed sanitizeUsername, which removes
\* every colon
C32_StepCut ==
  /\ MessageStep => RateKey(last'.ws) = UpToColon(JoinOf(last'.ws).userId)
  /\ MessageStep \/ CloseStep =>
       \A i \in 1..Len(sent') :
         sent'[i].data.type \in {"message", "leave"} =>
           /\ sent'[i].data.userId = UpToColon(JoinOf(last'.ws).userId)
           /\ sent'[i].data.username = JoinOf(last'.ws).username

C32_IdentityUpToColon == [][C32_StepCut]_vars

\* ---------------------------------------------------------------------------
IsLifeEvent(e) == e.type \in {"join", "message", "leave"}
\* the join, message and leave events of s that carry the userId of
\* connection c, as the tags of c give it back
EventsOf(s, c) ==
  SelectSeq(s, LAMBDA e : IsLifeEvent(e) /\ UpToColon(e.userId) = RateKey(c))
\* a join can only be the first event and a leave only the last one
InLifeOrder(s) ==
  \A i \in 1..Len(s) :
    /\ s[i].type = "join" => i = 1
    /\ s[i].type = "leave" => i = Len(s)

\* C33: for every connection, in the events the room records and in the
\* events it has sent to any other connection, the join event precedes every
\* message event the connection authored and the leave event follows all of
\* them, with at most one join and one leave; a message event is emitted
\* only for a connection that has joined and has not left, and a handle
\* that has left is never registered again.
C33_Order ==
  \A c \in 1..(nextConn - 1) :
    LET recorded == EventsOf(messageHistory, c)
    IN  /\ InLifeOrder(recorded)
        /\ recorded # <<>> /\ recorded[1].type = "join"
        /\ c \in sockets => recorded[Len(recorded)].type # "leave"
        /\ \A d \in 1..(nextConn - 1) : InLifeOrder(EventsOf(received[d], c))

C33_Step ==
  /\ (\E i \in 1..Len(sent') : sent'[i].data.type = "message") =>
       last'.op = "message" /\ last'.ws \in sockets /\ last'.ws < nextConn
  /\ sockets' \subseteq sockets \cup {nextConn}
  /\ nextConn' >= nextConn

C33_Lifecycle == [][C33_Step]_vars /\ []C33_Order

\* connection 1 joined, authored a message and left, and connection 2 has
\* received the three events in that order
C33_Witness ==
  /\ 1 \notin sockets /\ 2 \in sockets
  /\ LET recorded == EventsOf(messageHistory, 1)
     IN  /\ Len(recorded) = 3
         /\ recorded[2].type = "message" /\ recorded[3].type = "leave"
         /\ Len(EventsOf(received[2], 1)) = 2
         /\ EventsOf(received[2], 1)[1].type = "message"
         /\ EventsOf(received[2], 1)[2].type = "leave"

\* ---------------------------------------------------------------------------
\* the entry of userId k holds a block that is not over at time t
BlockedAt(m, k, t) ==
  k \in DOMAIN m /\ m[k].blockedUntil # 0 /\ t < m[k].blockedUntil

\* C34: rate-limit state outlives connections: a close and an accept leave
\* the state of every userId as it is, a block that is not over is still
\* there after every step, and a frame of a blocked userId is refused on
\* whichever connection carries that userId.
C34_Step ==
  /\ CloseStep \/ ConnectStep => rateLimitMap' = rateLimitMap
  /\ \A k \in DOMAIN rateLimitMap :
       BlockedAt(rateLimitMap, k, now') =>
         /\ BlockedAt(rateLimitMap', k, now')
         /\ rateLimitMap'[k].blockedUntil = rateLimitMap[k].blockedUntil
  /\ MessageStep /\ BlockedAt(rateLimitMap, Charged, now) =>
       /\ RateLimitNotice(sent', last'.ws)
       /\ sent'[1].data.blockedUntil = rateLimitMap[Charged].blockedUntil

C34_StateOutlives == [][C34_Step]_vars

\* the user was blocked on connection 1, closed it, and is still blocked,
\* with the same entry, when connection 2 has been accepted 30 s later
C34_Witness ==
  /\ last.op = "connect" /\ last.ws = 2 /\ sockets = {2}
  /\ now = 30000
  /\ BlockedAt(rateLimitMap, RateKey(2), now)
  /\ rateLimitMap[RateKey(2)].blockedUntil = blockDurationMs
  /\ rateLimitMap[RateKey(2)].tokens = 0

\* a frame on connection 2 was refused with the end of the block that began
\* at time 0
C34_RefusedAgain ==
  /\ sockets = {2} /\ last.op = "message" /\ last.ws = 2
  /\ RateLimitNotice(sent, 2)
  /\ now = 30000 /\ sent[1].data.blockedUntil = blockDurationMs

\* ---------------------------------------------------------------------------
\* the frame is turned away by the content checks: flagged as suspicious, or
\* blank once sanitized
TurnedAway(frame) ==
  /\ frame.kind = "message"
  /\ containsSuspiciousContent(frame.message) \/ SanitizedBlank(frame)

\* C35: the rate-limit check runs before the content checks: an allowed
\* message frame that is then rejected as suspicious or dropped as blank is
\* charged like any other (with no refill due it takes one token), and after
\* maxRequests such frames in rapid succession from a fresh userId, with no
\* message accepted, the next frame of that userId is answered with
\* rate_limit_exceeded.
C35_Step ==
  (MessageStep /\ TurnedAway(last'.frame) /\ AllowedNow(last'.ws)) =>
    /\ messageHistory' = messageHistory /\ received' = received
    /\ IF containsSuspiciousContent(last'.frame.message)
       THEN ErrorNotice(sent', last'.ws) ELSE sent' = <<>>
    /\ Later = checkRateLimit(rateLimitMap, Charged, now).limit
    /\ (Charged \in DOMAIN rateLimitMap /\ Before.blockedUntil = 0
        /\ TokensToAdd(now - Before.lastRefill) = 0) =>
         Later.tokens = Before.tokens - 1
    /\ Charged \notin DOMAIN rateLimitMap => Later.tokens = maxRequests - 1

C35_Next ==
  \A ws \in sockets :
    (/\ last.op = "message" /\ last.ws = ws
     /\ RateKey(ws) \in DOMAIN checks
     /\ checks[RateKey(ws)].n = maxRequests + 1
     /\ Rapid(checks[RateKey(ws)].first, now)
     /\ OfType(messageHistory, "message") = <<>>)
    => RateLimitNotice(sent, ws)

C35_ChargedBeforeContent == [][C35_Step]_vars /\ []C35_Next

\* thirty frames, blank or suspicious, within a second, none of them
\* broadcast; the thirty-first, a harmless text, was refused
C35_Witness ==
  \E ws \in sockets :
    /\ last.op = "message" /\ last.ws = ws /\ last.frame.message = Hello
    /\ checks[RateKey(ws)].n = maxRequests + 1
    /\ now - checks[RateKey(ws)].first = 1000
    /\ OfType(messageHistory, "message") = <<>>
    /\ RateLimitNotice(sent, ws)
    /\ rateLimitMap[RateKey(ws)].blockedUntil = now + blockDurationMs

\* ---------------------------------------------------------------------------
\* C36: a userId whose consecutive frames are always at least windowMs /
\* maxRequests (2000 ms) apart is never blocked, however long it keeps
\* sending: no frame of it is answered with rate_limit_exceeded, its entry
\* never holds a block, and after each of its frames it has maxRequests - 1
\* tokens left.
C36_Step ==
  MessageStep =>
    /\ \A i \in 1..Len(sent') : sent'[i].data.type # "rate_limit_exceeded"
    /\ Later.blockedUntil = 0
    /\ Later.tokens = maxRequests - 1

C36_Unblocked ==
  \A k \in DOMAIN rateLimitMap : rateLimitMap[k].blockedUntil = 0

C36_PacedNeverBlocked == [][C36_Step]_vars /\ []C36_Unblocked

\* the 32nd frame of a user who sent one frame every 2000 ms was answered
\* with a pong
C36_Witness ==
  /\ last.op = "message" /\ last.frame = Ping
  /\ checks[RateKey(last.ws)].n = maxRequests + 2
  /\ now = (maxRequests + 1) * (windowMs \div maxRequests)
  /\ Len(sent) = 1 /\ sent[1].data.type = "pong"
  /\ rateLimitMap[RateKey(last.ws)].tokens = maxRequests - 1

\* ---------------------------------------------------------------------------
\* the calls before the i-th one, or the i-th one included, that were
\* allowed for identifier at a time in (t - windowMs, t]
AllowedWithin(identifier, t, upTo) ==
  {j \in 1..upTo :
     /\ calls[j].identifier = identifier /\ calls[j].allowed
     /\ calls[j].time > t - windowMs /\ calls[j].time <= t}

\* C37: isAllowed(identifier) returns true exactly when fewer than
\* maxRequests earlier calls for that identifier were allowed within the
\* preceding windowMs, whatever calls were denied meanwhile; hence at most
\* maxRequests calls per identifier are allowed in any window of windowMs
\* (the windowMs up to a time t, as isAllowed counts them); a call for one
\* identifier leaves the entry of every other one alone; and cleanup() does
\* not change the result of any later isAllowed call.
C37_Results ==
  \A i \in 1..Len(calls) :
    LET c == calls[i]
    IN  /\ c.allowed <=>
             Cardinality(AllowedWithin(c.identifier, c.time, i - 1)) < ValidatorMax
        /\ Cardinality(AllowedWithin(c.identifier, c.time, i)) <= ValidatorMax

C37_Step ==
  /\ calls' # calls =>
       \A other \in Identifiers \ {calls'[Len(calls')].identifier} :
         /\ other \in DOMAIN requests' <=> other \in DOMAIN requests
         /\ RequestsOf(requests', other) = RequestsOf(requests, other)
  /\ (calls' = calls /\ now' = now) =>
       \A identifier \in Identifiers, d \in {0} \cup ValidatorTicks \cup {windowMs} :
         isAllowed(requests', identifier, now + d).allowed
           = isAllowed(requests, identifier, now + d).allowed

C37_SlidingWindow == [][C37_Step]_vars /\ []C37_Results

\* two calls allowed at time 0, two denied half a window later, and the
\* next one allowed when the window of the first two is over
C37_Witness ==
  /\ Len(calls) = 5
  /\ \A i \in 1..5 : calls[i].identifier = "a"
  /\ [i \in 1..5 |-> calls[i].allowed] = <<TRUE, TRUE, FALSE, FALSE, TRUE>>
  /\ [i \in 1..5 |-> calls[i].time]
       = <<0, 0, windowMs \div 2, windowMs \div 2, windowMs>>

\* cleanup() has removed the entry of an identifier whose requests are all
\* older than the window
C37_CleanedUp ==
  /\ \E i \in 1..Len(calls) : calls[i].identifier = "b" /\ calls[i].allowed
  /\ "b" \notin DOMAIN requests /\ "a" \in DOMAIN requests

\* ---------------------------------------------------------------------------
\* the ids of the entries of the client's message list
ShownIds(c) == {c.messages[i].id : i \in 1..Len(c.messages)}
\* this step is ws.onmessage
ClientMessageStep == clientLast'.op = "message" /\ wsockets' = wsockets

\* C38: the client's message list never holds two entries with the same id:
\* a frame only appends to the list, and what it appends are entries whose
\* ids were not in the list, so a message or system frame whose id is shown
\* already changes nothing, and neither an echoed message nor a history
\* replayed after a reconnect is shown twice.
C38_NoTwice ==
  \A i \in 1..Len(chat.messages), j \in 1..Len(chat.messages) :
    i # j => chat.messages[i].id # chat.messages[j].id

C38_Step ==
  ClientMessageStep =>
    /\ IsPrefix(chat.messages, chat'.messages)
    /\ \A i \in (Len(chat.messages) + 1)..Len(chat'.messages) :
         chat'.messages[i].id \notin ShownIds(chat)
    /\ (Len(clientLast'.ids) = 1 /\ clientLast'.ids[1] \in ShownIds(chat)) =>
         chat'.messages = chat.messages

C38_NoDuplicates == [][C38_Step]_vars /\ []C38_NoTwice

\* the first socket brought the welcome and message 1 and is closed; the
\* history replayed on the second socket held the events 1 to 3, of which
\* only message 3 was added
C38_Witness ==
  /\ wsockets[1] = "closed" /\ chat.wsRef = 2
  /\ clientLast.op = "message" /\ clientLast.ws = 2
  /\ clientLast.ids = <<1, 2, 3>>
  /\ [i \in 1..Len(chat.messages) |-> chat.messages[i].id] = <<NoId, 1, 3>>

\* ---------------------------------------------------------------------------
\* C39: whenever the current socket (wsRef.current) is open the client shows
\* itself connected: isConnected is true and the status is 'connected'; and
\* the close event of a socket that has been replaced leaves the state of
\* the client alone while the current socket is open.
C39_Shown ==
  (chat.wsRef # NoWebSocket /\ wsockets[chat.wsRef] = "open") =>
    chat.isConnected /\ chat.connectionStatus = "connected"

C39_Step ==
  (/\ clientLast'.op = "close" /\ wsockets' # wsockets
   /\ chat.wsRef # NoWebSocket /\ wsockets[chat.wsRef] = "open"
   /\ clientLast'.ws # chat.wsRef /\ wsockets'[chat.wsRef] = "open"
   /\ chat'.wsRef = chat.wsRef) =>
    /\ chat'.isConnected = chat.isConnected
    /\ chat'.connectionStatus = chat.connectionStatus
    /\ chat'.onlineUsers = chat.onlineUsers

C39_CurrentShownConnected == [][C39_Step]_vars /\ []C39_Shown

\* the effect ran again and replaced socket 1 by socket 2; socket 2 opened
\* and brought the online users; then the close event of socket 1 came
C39_StaleClose ==
  /\ chat.wsRef = 2 /\ wsockets[2] = "open" /\ wsockets[1] = "closed"
  /\ clientLast.op = "close" /\ clientLast.ws = 1
  /\ ~chat.isConnected /\ chat.connectionStatus = "disconnected"
  /\ chat.onlineUsers = <<>>
  /\ Len(chat.messages) = 1

====
